---- MODULE Spec2Model ----
(***************************************************************************)
(* Linux-CommA downstream monitor: the MonitoringSubjects reconciliation   *)
(* (update_revisions_for_distro), the per-subject fetch loop of            *)
(* monitor_downstream and the missing-patch reconciliation of              *)
(* monitor_subject, modelled from src/comma/downstream/monitor.py; the     *)
(* confidence weights and parse_log of src/UpstreamTracker/ParseData.py;   *)
(* the symbol tracker of src/comma/util/symbols.py; the database           *)
(* credentials of src/Setup/DbCred.py.                                     *)
(*                                                                         *)
(* Strings the code inspects with startswith / split are sequences of      *)
(* tokens; a token stands for a run of characters without "/".             *)
(***************************************************************************)
EXTENDS Integers, Sequences, FiniteSets, TLC

VARIABLES
    subjects,      \* MonitoringSubjects table: rows [id, distroID, revision]
    nextSubjectID, \* next autoincrement key of the MonitoringSubjects table
    revPc,         \* position inside update_revisions_for_distro
    revArg,        \* arguments (distro_id, revs) of the call in progress
    revPre,        \* MonitoringSubjects table when the call in progress began
    missing,       \* MonitoringSubjectsMissingPatches table: <<subjectID, patchID>> -> number of rows
    remoteHead,    \* per (remote, remote_ref): the commit the remote ref points at
    references,    \* repo.references: the local refs, as [name, commit]
    pc,            \* position inside the monitor_downstream run
    todo,          \* ids of the rows the for-loop of monitor_downstream has not visited yet
    cur,           \* id of the subject being processed (0 outside the loop body)
    started,       \* ids of the subjects whose loop body began in this run
    fetches,       \* fetch calls issued for cur in this run: [kind, head, result]
    cand,          \* missing_cherries after the intersection (commit ids)
    ids,           \* missing_patch_ids, a list ordered by commitTime
    err,           \* the call whose exception left monitor_downstream, or "none"
    nDeleted,      \* rows removed by the delete phase of cur
    nAdded,        \* new_missing_patches of the add phase of cur
    lastIds,       \* <<subject, id set>> of the last completed reconcile of a subject
    cut,           \* <<subject, id set, re-run completed>> of the last reconcile cut between its phases
    matchedCommits,       \* commit ids of the candidate patches patch_matches found downstream
    trackPc,       \* position inside the tracked-revision update of monitor_downstream
    trackTodo,     \* distro ids the update loop has not visited yet
    trackCur,      \* distro id whose revisions are being updated (<<>> outside)
    trackLines,    \* the lines of the ls-remote output for trackCur
    policy,        \* <<distro, latest_two_kernels>> of the updates of this run
    trackPre,      \* MonitoringSubjects table when the update step began
    gitLog,        \* what the two git log calls of monitor_subject range over
    detected,      \* the candidate set computed from gitLog, as <<U, M, candidates>>
    signals,       \* <<indicator, five similarity signals>> of the patch being inserted
    score,         \* the confidence computed for signals (empty before it is computed)
    symCommits,    \* commits: the commit ids of PatchData ordered by commitTime
    symTree,       \* per commit: the function symbols of the tracked files in its tree
    symField,      \* PatchData.symbols per commit id: {} is NULL, {text} a string
    symPrior,      \* PatchData.symbols per commit id when map_symbols_to_patch began
    symHead,       \* what the repository has checked out
    symEntry,      \* what the repository had checked out when map_symbols_to_patch began
    symInitial,    \* initial_reference ("" before it is taken)
    symPc,         \* position inside map_symbols_to_patch and symbol_checker
    symI,          \* position of the loop in commits
    symBefore,     \* before_patch_apply: {} is None, {S} a set of symbols
    symAfter,      \* after_patch_apply, in the same way
    symSeen,       \* <<commit, S>>: get_symbols returned S for the tree of commit in this run
    symFailedAt,   \* positions of commits at which ctags exited non-zero
    symExit,       \* how map_symbols_to_patch left its try block
    symRef,        \* symbols_in_file of the symbol_checker call
    symResult,     \* the list symbol_checker returned
    credPc,        \* position inside DatabaseCredentials.__init__
    credPath,      \* os.path.exists(secret_repo_path)
    credEnv,       \* os.getenv("LSG_SECRET_DB_CRED"): {} is None, {token} a value
    credXml,       \* the elements PatchTrackerSecrets.xml of the secrets repository holds
    credCalls,     \* the git operations issued, in order
    credFields,    \* the attributes of the object that have been set
    credErr,       \* the exception that left __init__, or "none"
    ordPc,         \* position of a run of monitor_downstream in its control flow
    ordDistros,    \* distro ids the tracked-revision update has not visited yet
    ordTodo,       \* ids of the subjects the subject loop has not visited yet
    ordCur,        \* id of the subject in the loop body (0 outside)
    ordStage,      \* number of stages of the loop body completed for ordCur
    ordLog,        \* the stages completed in this run, in order: <<stage, distro or subject>>
    patchTable,    \* the persisted Patch records
    nextPatchID,   \* the id the next Patch record gets
    plPc,          \* parse_log: idle or in its loop
    plScope,       \* parse_log: the indicator and distro of the run
    plPaths,       \* parse_log: file_paths of the run
    plTodo,        \* parse_log: commits the iterator has still to yield
    plAdded,       \* parse_log: count_added
    plPresent,     \* parse_log: count_present
    persistErr,    \* the last write of a symbols field raised
    remotes,       \* the names of the repository's remotes
    distroTable,   \* the distro ids of the Distros table
    remPc,         \* remote setup: idle, in its loop, ready, done or aborted
    current_remotes,\* the output of repo.git.remote() of the run
    remTodo,       \* distro ids the setup loop has still to visit
    remCreated,    \* the names create_remote has been given, over all runs
    remRuns        \* runs of monitor_downstream begun

vars == <<subjects, nextSubjectID, revPc, revArg, revPre, missing,
          remoteHead, references, pc, todo, cur, started, fetches, cand,
          ids, err, nDeleted, nAdded, lastIds, cut, matchedCommits,
          trackPc, trackTodo, trackCur, trackLines, policy, trackPre,
          gitLog, detected, signals, score, symCommits, symTree, symField,
          symPrior, symHead, symEntry, symInitial, symPc, symI, symBefore,
          symAfter, symSeen, symFailedAt, symExit, symRef, symResult,
          credPc, credPath, credEnv, credXml, credCalls, credFields,
          credErr, ordPc, ordDistros, ordTodo, ordCur, ordStage, ordLog,
          patchTable, nextPatchID, plPc, plScope, plPaths, plTodo, plAdded,
          plPresent, persistErr, remotes, distroTable, remPc,
          current_remotes, remTodo, remCreated, remRuns>>

revVars == <<subjects, nextSubjectID, revPc, revArg, revPre>>

monVars == <<missing, remoteHead, references, pc, todo, cur, started,
             fetches, cand, ids, err, nDeleted, nAdded, lastIds, cut, matchedCommits>>

trackVars == <<trackPc, trackTodo, trackCur, trackLines, policy, trackPre>>

detVars == <<gitLog, detected>>

scoreVars == <<signals, score>>

symVars == <<symCommits, symTree, symField, symPrior, symHead, symEntry,
             symInitial, symPc, symI, symBefore, symAfter, symSeen,
             symFailedAt, symExit, symRef, symResult>>

credVars == <<credPc, credPath, credEnv, credXml, credCalls, credFields, credErr>>

ordVars == <<ordPc, ordDistros, ordTodo, ordCur, ordStage, ordLog>>

patchVars == <<patchTable, nextPatchID, plPc, plScope, plPaths, plTodo, plAdded, plPresent, persistErr>>

remVars == <<remotes, distroTable, remPc, current_remotes, remTodo, remCreated, remRuns>>

\* Variables of the parts of the program other than the monitor and the
\* MonitoringSubjects reconciliation
sideVars == <<trackVars, detVars, scoreVars, symVars, credVars, ordVars, patchVars, remVars>>

\* The tracked-revision update has not begun
TrackAtRest ==
    /\ trackPc = "idle"
    /\ trackTodo = {}
    /\ trackCur = <<>>
    /\ trackLines = <<>>
    /\ policy = {}
    /\ trackPre = {}

\* No git log call of monitor_subject has been made
DetectAtRest ==
    /\ gitLog = <<>>
    /\ detected = <<>>

\* No patch is being scored
ScoreAtRest ==
    /\ signals = <<>>
    /\ score = {}

\* The symbol tracker has not been called
SymAtRest ==
    /\ symCommits = <<>>
    /\ symTree = <<>>
    /\ symField = <<>>
    /\ symPrior = <<>>
    /\ symHead = "master"
    /\ symEntry = "master"
    /\ symInitial = ""
    /\ symPc = "idle"
    /\ symI = 1
    /\ symBefore = {}
    /\ symAfter = {}
    /\ symSeen = {}
    /\ symFailedAt = {}
    /\ symExit = "none"
    /\ symRef = {}
    /\ symResult = <<>>

\* No DatabaseCredentials object is being constructed
CredAtRest ==
    /\ credPc = "idle"
    /\ credPath = FALSE
    /\ credEnv = {}
    /\ credXml = {}
    /\ credCalls = <<>>
    /\ credFields = {}
    /\ credErr = "none"

\* No run of monitor_downstream is being followed stage by stage
OrderAtRest ==
    /\ ordPc = "idle"
    /\ ordDistros = {}
    /\ ordTodo = {}
    /\ ordCur = 0
    /\ ordStage = 0
    /\ ordLog = <<>>

\* No Patch record is persisted and parse_log is not running
PatchAtRest ==
    /\ patchTable = {}
    /\ nextPatchID = 1
    /\ plPc = "idle"
    /\ plScope = ""
    /\ plPaths = 0
    /\ plTodo = {}
    /\ plAdded = 0
    /\ plPresent = 0
    /\ persistErr = FALSE

\* The remote setup has not begun
RemotesAtRest ==
    /\ remotes = {}
    /\ distroTable = {}
    /\ remPc = "idle"
    /\ current_remotes = <<>>
    /\ remTodo = {}
    /\ remCreated = <<>>
    /\ remRuns = 0

----------------------------------------------------------------------------
(* Bounds *)

MaxHead == 2          \* commits a remote ref moves through
MaxSubjectID == 8     \* autoincrement keys handed out by the MonitoringSubjects table

(* config.since resolved to a timestamp; a head h has committed_date h *)
WindowStart == 2

----------------------------------------------------------------------------
(* String helpers on token sequences *)

StartsWith(s, p) == Len(s) >= Len(p) /\ SubSeq(s, 1, Len(p)) = p

Slash == "/"

FirstSlash(s) ==
    IF \E i \in 1..Len(s) : s[i] = Slash
    THEN CHOOSE i \in 1..Len(s) : s[i] = Slash /\ \A j \in 1..(i-1) : s[j] # Slash
    ELSE 0

\* s.split("/", 1)[-1]
AfterFirstSlash(s) ==
    IF FirstSlash(s) = 0 THEN s ELSE SubSeq(s, FirstSlash(s) + 1, Len(s))

IsDebian(d) == StartsWith(d, <<"Debian">>)

----------------------------------------------------------------------------
(* Fixture data: the Distros, the subjects the loop runs over, PatchData *)

Ubuntu == <<"Ubuntu", "18.04">>
Debian == <<"Debian", "9">>
Suse   == <<"SUSE", "12">>

Ubuntu16 == <<"Ubuntu", "16.04">>

Distros == {Ubuntu, Ubuntu16, Debian, Suse}

MonitoredSubjects ==
    { [id |-> 1, distroID |-> Ubuntu, revision |-> <<"tags", "/", "azure-1">>],
      [id |-> 2, distroID |-> Debian, revision |-> <<"master">>],
      [id |-> 3, distroID |-> Suse,   revision |-> <<"SUSE", "12", "/", "master">>] }

PatchData ==
    { [patchID |-> 11, commitID |-> "c1", commitTime |-> 2],
      [patchID |-> 12, commitID |-> "c2", commitTime |-> 1] }

\* upstream commits; "c3" has no PatchData row
Commits == {"c1", "c2", "c3"}

PatchIDs == {p.patchID : p \in PatchData}

SubjectIDs == {s.id : s \in MonitoredSubjects}

Subject(i) == CHOOSE s \in subjects : s.id = i

\* The elements of a list
Range(q) == {q[i] : i \in 1..Len(q)}

----------------------------------------------------------------------------
(* monitor_downstream: local and remote names of a subject's revision *)

HasDistroPrefix(s) == StartsWith(s.revision, s.distroID \o <<Slash>>)

LocalRef(s) ==
    IF HasDistroPrefix(s) THEN s.revision ELSE s.distroID \o <<Slash>> \o s.revision

RemoteRef(s) ==
    IF HasDistroPrefix(s) THEN AfterFirstSlash(s.revision) ELSE s.revision

RemoteKey(s) == <<s.distroID, RemoteRef(s)>>

RemoteKeys == {RemoteKey(s) : s \in {x \in MonitoredSubjects : ~IsDebian(x.distroID)}}

Heads == 1..MaxHead

CommitTime(h) == h

\* variant: a head exactly at the window start counts as outside the window
InFetchWindowStrict(h) == CommitTime(h) > WindowStart

\* fetch_info[-1].commit.committed_date >= approx_date_since
InFetchWindow(h) == CommitTime(h) >= WindowStart

\* hasattr(repo.references, local_ref)
HasReference(refs, name) == \E r \in refs : r.name = name

RefCommit(refs, name) == (CHOOSE r \in refs : r.name = name).commit

\* repo.create_tag(local_ref, "FETCH_HEAD") unless the name is taken
PinReference(refs, name, fetchHead) ==
    IF ~HasReference(refs, name)
    THEN refs \cup {[name |-> name, commit |-> fetchHead]}
    ELSE refs

\* FETCH_HEAD: the head of the last fetch that succeeded
OkFetches(f) == SelectSeq(f, LAMBDA x : x.result = "ok")

FetchHead(f) == OkFetches(f)[Len(OkFetches(f))].head

FetchKinds(f) == [i \in 1..Len(f) |-> f[i].kind]

----------------------------------------------------------------------------
(* monitor_subject: candidates, matching and the two reconcile phases *)

\* session.query(PatchData).filter(commitID.in_(missing_cherries))
CandidatePatches(c) == {p \in PatchData : p.commitID \in c}

\* .order_by(PatchData.commitTime) followed by the list comprehensions:
\* the patchIDs of the unmatched patches, oldest first
RECURSIVE ByCommitTime(_)
ByCommitTime(ps) ==
    IF ps = {} THEN <<>>
    ELSE LET first == CHOOSE p \in ps : \A q \in ps : p.commitTime <= q.commitTime
         IN <<first.patchID>> \o ByCommitTime(ps \ {first})

\* variant: the comprehension keeps the matched patches
MatchedPatchIds(patches, matched) == ByCommitTime(patches \cap matched)

\* missing_patches = [p for p in patches if not patch_matches(downstream_patches, p)]
MissingPatchIds(patches, matched) == ByCommitTime(patches \ matched)

\* query(...).filter_by(monitoringSubjectID=subject_id) as a set of patchIDs
SubjectRows(tbl, sid) == {p \in PatchIDs : tbl[<<sid, p>>] > 0}

\* variant: the filter lost its negation
PatchesToDeleteIn(tbl, sid, idList) ==
    {p \in SubjectRows(tbl, sid) : p \in Range(idList)}

\* patches.filter(~patchID.in_(missing_patch_ids))
PatchesToDelete(tbl, sid, idList) ==
    {p \in SubjectRows(tbl, sid) : p \notin Range(idList)}

RECURSIVE SumRows(_, _, _)
SumRows(tbl, sid, ps) ==
    IF ps = {} THEN 0
    ELSE LET p == CHOOSE x \in ps : TRUE
         IN tbl[<<sid, p>>] + SumRows(tbl, sid, ps \ {p})

\* variant: the bulk delete runs on the unfiltered query of the subject
DeleteAllRows(tbl, sid, idList) ==
    [k \in DOMAIN tbl |-> IF k[1] = sid THEN 0 ELSE tbl[k]]

\* variant: the delete query is not restricted to the subject
DeleteRowsAnySubject(tbl, sid, idList) ==
    [k \in DOMAIN tbl |-> IF k[2] \notin Range(idList) THEN 0 ELSE tbl[k]]

\* patches_to_delete.delete(synchronize_session=False)
DeleteRows(tbl, sid, idList) ==
    [k \in DOMAIN tbl |->
        IF k[1] = sid /\ k[2] \in PatchesToDelete(tbl, sid, idList) THEN 0 ELSE tbl[k]]

\* variant: the insert is not guarded by the existence check
AddAlways(tbl, sid, p) == [tbl EXCEPT ![<<sid, p>>] = @ + 1]

\* one iteration of the add loop: insert unless a row exists
AddIfAbsent(tbl, sid, p) ==
    IF tbl[<<sid, p>>] = 0 THEN [tbl EXCEPT ![<<sid, p>>] = 1] ELSE tbl

\* for patch_id in missing_patch_ids: ...
RECURSIVE AddRows(_, _, _)
AddRows(tbl, sid, idList) ==
    IF idList = <<>> THEN tbl
    ELSE AddRows(AddIfAbsent(tbl, sid, Head(idList)), sid, Tail(idList))

\* new_missing_patches
RECURSIVE NewMissing(_, _, _)
NewMissing(tbl, sid, idList) ==
    IF idList = <<>> THEN 0
    ELSE (IF tbl[<<sid, Head(idList)>>] = 0 THEN 1 ELSE 0)
         + NewMissing(AddIfAbsent(tbl, sid, Head(idList)), sid, Tail(idList))

\* a session that raises is rolled back: nothing of it is persisted
SessionRollback(before, partial) == before

----------------------------------------------------------------------------
(* monitor_downstream: one run over the MonitoringSubjects *)

\* variant: the loop body swallows the exception and goes on
RaiseAndContinue(stage) ==
    /\ pc' = "loop"
    /\ err' = stage

\* No handler encloses the loop body: an exception leaves monitor_downstream
Raise(stage) ==
    /\ pc' = "aborted"
    /\ err' = stage

Fetched(kind, result) ==
    [kind |-> kind, head |-> remoteHead[RemoteKey(Subject(cur))], result |-> result]

StartRun ==
    /\ pc \in {"idle", "done", "aborted"}
    /\ todo' = {s.id : s \in subjects}
    /\ pc' = "loop"
    /\ cur' = 0
    /\ started' = {}
    /\ fetches' = <<>>
    /\ cand' = {}
    /\ ids' = <<>>
    /\ matchedCommits' = {}
    /\ err' = "none"
    /\ nDeleted' = 0
    /\ nAdded' = 0
    /\ cut' = {e \in cut : ~e[3]}
    /\ UNCHANGED <<missing, remoteHead, references, lastIds>>
    /\ UNCHANGED <<revVars, sideVars>>

\* session.query(MonitoringSubjects).all() has no ORDER BY: the loop may take
\* the rows in any order.  if subject.distroID.startswith("Debian"): continue
LoopSkipDebian ==
    /\ pc = "loop"
    /\ \E i \in todo :
          /\ IsDebian(Subject(i).distroID)
          /\ todo' = todo \ {i}
    /\ UNCHANGED <<missing, remoteHead, references, pc, cur, started, fetches,
                   cand, matchedCommits, ids, err, nDeleted, nAdded, lastIds, cut>>
    /\ UNCHANGED <<revVars, sideVars>>

LoopEnter ==
    /\ pc = "loop"
    /\ \E i \in todo :
          /\ ~IsDebian(Subject(i).distroID)
          /\ cur' = i
          /\ todo' = todo \ {i}
          /\ started' = started \cup {i}
    /\ cut' = {e \in cut : e[1] = cur' /\ ~e[3]}
    /\ fetches' = <<>>
    /\ cand' = {}
    /\ ids' = <<>>
    /\ matchedCommits' = {}
    /\ nDeleted' = 0
    /\ nAdded' = 0
    /\ pc' = "fetch1"
    /\ UNCHANGED <<missing, remoteHead, references, err, lastIds>>
    /\ UNCHANGED <<revVars, sideVars>>

LoopEnd ==
    /\ pc = "loop"
    /\ todo = {}
    /\ pc' = "done"
    /\ UNCHANGED <<missing, remoteHead, references, todo, cur, started, fetches,
                   cand, matchedCommits, ids, err, nDeleted, nAdded, lastIds, cut>>
    /\ UNCHANGED <<revVars, sideVars>>

\* remote.fetch(remote_ref, depth=1) and the test of the head's commit time
FetchDepth1 ==
    /\ pc = "fetch1"
    /\ fetches' = <<Fetched("depth1", "ok")>>
    /\ pc' = IF InFetchWindow(Fetched("depth1", "ok").head) THEN "since" ELSE "pin"
    /\ UNCHANGED <<missing, remoteHead, references, todo, cur, started,
                   cand, matchedCommits, ids, err, nDeleted, nAdded, lastIds, cut>>
    /\ UNCHANGED <<revVars, sideVars>>

FetchDepth1Fail ==
    /\ pc = "fetch1"
    /\ fetches' = <<Fetched("depth1", "error")>>
    /\ Raise("depth1")
    /\ UNCHANGED <<missing, remoteHead, references, todo, cur, started,
                   cand, matchedCommits, ids, nDeleted, nAdded, lastIds, cut>>
    /\ UNCHANGED <<revVars, sideVars>>

\* remote.fetch(remote_ref, shallow_since=config.since)
FetchSince ==
    /\ pc = "since"
    /\ fetches' = Append(fetches, Fetched("since", "ok"))
    /\ pc' = "pin"
    /\ UNCHANGED <<missing, remoteHead, references, todo, cur, started,
                   cand, matchedCommits, ids, err, nDeleted, nAdded, lastIds, cut>>
    /\ UNCHANGED <<revVars, sideVars>>

\* GitCommandError with "Server does not support --shallow-since" in stderr
FetchSinceUnsupported ==
    /\ pc = "since"
    /\ fetches' = Append(fetches, Fetched("since", "unsupported"))
    /\ pc' = "fallback"
    /\ UNCHANGED <<missing, remoteHead, references, todo, cur, started,
                   cand, matchedCommits, ids, err, nDeleted, nAdded, lastIds, cut>>
    /\ UNCHANGED <<revVars, sideVars>>

\* variant: every GitCommandError of the shallow-since fetch takes the fallback
FetchSinceFailFallsBack ==
    /\ pc = "since"
    /\ fetches' = Append(fetches, Fetched("since", "error"))
    /\ pc' = "fallback"
    /\ UNCHANGED <<missing, remoteHead, references, todo, cur, started,
                   cand, matchedCommits, ids, err, nDeleted, nAdded, lastIds, cut>>
    /\ UNCHANGED <<revVars, sideVars>>

\* any other GitCommandError: raise
FetchSinceFail ==
    /\ pc = "since"
    /\ fetches' = Append(fetches, Fetched("since", "error"))
    /\ Raise("since")
    /\ UNCHANGED <<missing, remoteHead, references, todo, cur, started,
                   cand, matchedCommits, ids, nDeleted, nAdded, lastIds, cut>>
    /\ UNCHANGED <<revVars, sideVars>>

\* remote.fetch(remote_ref) inside the except block
FetchUnrestricted ==
    /\ pc = "fallback"
    /\ fetches' = Append(fetches, Fetched("full", "ok"))
    /\ pc' = "pin"
    /\ UNCHANGED <<missing, remoteHead, references, todo, cur, started,
                   cand, matchedCommits, ids, err, nDeleted, nAdded, lastIds, cut>>
    /\ UNCHANGED <<revVars, sideVars>>

FetchUnrestrictedFail ==
    /\ pc = "fallback"
    /\ fetches' = Append(fetches, Fetched("full", "error"))
    /\ Raise("full")
    /\ UNCHANGED <<missing, remoteHead, references, todo, cur, started,
                   cand, matchedCommits, ids, nDeleted, nAdded, lastIds, cut>>
    /\ UNCHANGED <<revVars, sideVars>>

\* Create tag at FETCH_HEAD to preserve reference locally
Pin ==
    /\ pc = "pin"
    /\ references' = PinReference(references, LocalRef(Subject(cur)), FetchHead(fetches))
    /\ pc' = "detect"
    /\ UNCHANGED <<missing, remoteHead, todo, cur, started, fetches,
                   cand, matchedCommits, ids, err, nDeleted, nAdded, lastIds, cut>>
    /\ UNCHANGED <<revVars, sideVars>>

\* The remote ref moves on while the monitor runs or between runs
Advance ==
    /\ \E k \in RemoteKeys :
          /\ remoteHead[k] < MaxHead
          /\ remoteHead' = [remoteHead EXCEPT ![k] = @ + 1]
    /\ UNCHANGED <<missing, references, pc, todo, cur, started, fetches,
                   cand, matchedCommits, ids, err, nDeleted, nAdded, lastIds, cut>>
    /\ UNCHANGED <<revVars, sideVars>>

----------------------------------------------------------------------------
(* monitor_subject(subject, repo, local_ref) *)

\* variant: the cherry list is not restricted to the tracked paths
MissingCherriesAllPaths(U, M) == M

\* missing_cherries &= upstream_commits
MissingCherries(U, M) == M \cap U

\* The two git log calls and missing_cherries &= upstream_commits
Detect ==
    /\ pc = "detect"
    /\ \E U \in SUBSET Commits, M \in SUBSET Commits : cand' = MissingCherries(U, M)
    /\ pc' = "match"
    /\ UNCHANGED <<missing, remoteHead, references, todo, cur, started, fetches,
                   ids, err, nDeleted, nAdded, lastIds, cut>>
    /\ UNCHANGED <<revVars, sideVars, matchedCommits>>

DetectFail ==
    /\ pc = "detect"
    /\ Raise("detect")
    /\ UNCHANGED <<missing, remoteHead, references, todo, cur, started, fetches,
                   cand, matchedCommits, ids, nDeleted, nAdded, lastIds, cut>>
    /\ UNCHANGED <<revVars, sideVars>>

\* min(p.commitTime for p in patches) over no patches: ValueError
LoadEmpty ==
    /\ pc = "match"
    /\ CandidatePatches(cand) = {}
    /\ Raise("empty")
    /\ UNCHANGED <<missing, remoteHead, references, todo, cur, started, fetches,
                   cand, matchedCommits, ids, nDeleted, nAdded, lastIds, cut>>
    /\ UNCHANGED <<revVars, sideVars>>

\* variant: the subject's records are cleared while the candidates are matched
ClearingSession(tbl, sid) == [k \in DOMAIN tbl |-> IF k[1] = sid THEN 0 ELSE tbl[k]]

\* the session of the candidate query and the matching only reads: leaving
\* it commits no change
ReadSession(tbl, sid) == tbl

\* process_commits and patch_matches per candidate patch
Match ==
    /\ pc = "match"
    /\ CandidatePatches(cand) # {}
    /\ \E found \in SUBSET CandidatePatches(cand) :
          /\ ids' = MissingPatchIds(CandidatePatches(cand), found)
          /\ matchedCommits' = {p.commitID : p \in found}
    /\ missing' = ReadSession(missing, cur)
    /\ pc' = "delete"
    /\ UNCHANGED <<remoteHead, references, todo, cur, started, fetches,
                   cand, err, nDeleted, nAdded, lastIds, cut>>
    /\ UNCHANGED <<revVars, sideVars>>

MatchFail ==
    /\ pc = "match"
    /\ CandidatePatches(cand) # {}
    /\ Raise("match")
    /\ UNCHANGED <<missing, remoteHead, references, todo, cur, started, fetches,
                   cand, matchedCommits, ids, nDeleted, nAdded, lastIds, cut>>
    /\ UNCHANGED <<revVars, sideVars>>

\* Entries of h about other subjects
Others(h) == {e \in h : e[1] # cur}

\* Delete patches that are no longer missing (first session)
DeletePhase ==
    /\ pc = "delete"
    /\ missing' = DeleteRows(missing, cur, ids)
    /\ nDeleted' = SumRows(missing, cur, PatchesToDelete(missing, cur, ids))
    /\ lastIds' = IF <<cur, Range(ids)>> \in lastIds THEN lastIds ELSE Others(lastIds)
    /\ cut' = cut \cap {<<cur, Range(ids), FALSE>>}
    /\ pc' = "add"
    /\ UNCHANGED <<remoteHead, references, todo, cur, started, fetches,
                   cand, matchedCommits, ids, err, nAdded>>
    /\ UNCHANGED <<revVars, sideVars>>

DeleteFail ==
    /\ pc = "delete"
    /\ missing' = SessionRollback(missing, DeleteRows(missing, cur, ids))
    /\ Raise("delete")
    /\ UNCHANGED <<remoteHead, references, todo, cur, started, fetches,
                   cand, matchedCommits, ids, nDeleted, nAdded, lastIds, cut>>
    /\ UNCHANGED <<revVars, sideVars>>

\* The process stops after the first session committed, before the second opens
Interrupt ==
    /\ pc = "add"
    /\ cut' = {<<cur, Range(ids), FALSE>>}
    /\ lastIds' = Others(lastIds)
    /\ Raise("interrupt")
    /\ UNCHANGED <<missing, remoteHead, references, todo, cur, started, fetches,
                   cand, matchedCommits, ids, nDeleted, nAdded>>
    /\ UNCHANGED <<revVars, sideVars>>

\* Add patches which are newly missing (second session)
AddPhase ==
    /\ pc = "add"
    /\ missing' = AddRows(missing, cur, ids)
    /\ nAdded' = NewMissing(missing, cur, ids)
    /\ lastIds' = Others(lastIds) \cup {<<cur, Range(ids)>>}
    /\ cut' = IF <<cur, Range(ids), FALSE>> \in cut THEN {<<cur, Range(ids), TRUE>>} ELSE {}
    /\ pc' = "loop"
    /\ UNCHANGED <<remoteHead, references, todo, cur, started, fetches,
                   cand, matchedCommits, ids, err, nDeleted>>
    /\ UNCHANGED <<revVars, sideVars>>

AddFail ==
    /\ pc = "add"
    /\ missing' = SessionRollback(missing, AddRows(missing, cur, ids))
    /\ cut' = {<<cur, Range(ids), FALSE>>}
    /\ lastIds' = Others(lastIds)
    /\ Raise("add")
    /\ UNCHANGED <<remoteHead, references, todo, cur, started, fetches,
                   cand, matchedCommits, ids, nDeleted, nAdded>>
    /\ UNCHANGED <<revVars, sideVars>>

----------------------------------------------------------------------------
(* The monitor specification: runs of monitor_downstream over fixed subjects *)

\* Any duplicate-free prior table for the subjects the loop processes; the
\* skipped Debian subject holds one row from before
MissingTables ==
    {tbl \in [SubjectIDs \X PatchIDs -> {0, 1}] :
        \A s \in MonitoredSubjects :
            IsDebian(s.distroID) =>
                \A p \in PatchIDs : (tbl[<<s.id, p>>] = 1) = (p = 11)}

Init ==
    /\ subjects = MonitoredSubjects
    /\ nextSubjectID = Cardinality(MonitoredSubjects) + 1
    /\ revPc = "idle"
    /\ revArg = <<>>
    /\ revPre = {}
    /\ missing \in MissingTables
    /\ remoteHead \in [RemoteKeys -> Heads]
    /\ references = {}
    /\ pc = "idle"
    /\ todo = {}
    /\ cur = 0
    /\ started = {}
    /\ fetches = <<>>
    /\ cand = {}
    /\ ids = <<>>
    /\ err = "none"
    /\ nDeleted = 0
    /\ nAdded = 0
    /\ lastIds = {}
    /\ cut = {}
    /\ matchedCommits = {}
    /\ TrackAtRest
    /\ DetectAtRest
    /\ ScoreAtRest
    /\ SymAtRest
    /\ RemotesAtRest
    /\ PatchAtRest
    /\ OrderAtRest
    /\ CredAtRest

Next ==
    \/ StartRun
    \/ LoopSkipDebian
    \/ LoopEnter
    \/ LoopEnd
    \/ FetchDepth1
    \/ FetchDepth1Fail
    \/ FetchSince
    \/ FetchSinceUnsupported
    \/ FetchSinceFail
    \/ FetchUnrestricted
    \/ FetchUnrestrictedFail
    \/ Pin
    \/ Advance
    \/ Detect
    \/ DetectFail
    \/ LoadEmpty
    \/ Match
    \/ MatchFail
    \/ DeletePhase
    \/ DeleteFail
    \/ Interrupt
    \/ AddPhase
    \/ AddFail

Spec == Init /\ [][Next]_vars

TypeOK ==
    /\ missing \in [SubjectIDs \X PatchIDs -> 0..2]
    /\ cur \in SubjectIDs \cup {0}

----------------------------------------------------------------------------
(* update_revisions_for_distro(distro_id, revs) *)

\* variant: the delete query lost its distro filter
RevsToDeleteAnyDistro(tbl, d, revs) ==
    {x \in tbl : x.revision \notin Range(revs)}

\* query(MonitoringSubjects).filter_by(distroID=distro_id)
\*     .filter(~MonitoringSubjects.revision.in_(revs))
RevsToDelete(tbl, d, revs) ==
    {x \in tbl : x.distroID = d /\ x.revision \notin Range(revs)}

\* query(MonitoringSubjects).filter_by(distroID=distro_id, revision=rev).first() is None
RevAbsent(tbl, d, rev) == ~\E x \in tbl : x.distroID = d /\ x.revision = rev

\* the add loop: state is the table and the next autoincrement key
RECURSIVE AddRevisions(_, _, _, _)
AddRevisions(tbl, nid, d, revs) ==
    IF revs = <<>> THEN [tbl |-> tbl, nid |-> nid]
    ELSE IF RevAbsent(tbl, d, Head(revs))
         THEN AddRevisions(
                  tbl \cup {[id |-> nid, distroID |-> d, revision |-> Head(revs)]},
                  nid + 1, d, Tail(revs))
         ELSE AddRevisions(tbl, nid, d, Tail(revs))

TagA == <<"tags", "/", "azure-1">>
TagB == <<"tags", "/", "azure-2">>
TagC == <<"tags", "/", "azure-3">>

\* latest_two_kernels = tag_names[-2:] of distinct remote refs
RevLists ==
    {<<>>} \cup {<<a>> : a \in {TagA, TagB, TagC}}
           \cup {<<a, b>> : a \in {TagA}, b \in {TagB, TagC}}
           \cup {<<TagB, TagC>>}

\* variant: every distro of the table is tracked
TrackedAnyDistro == Distros

\* update_tracked_revisions calls it for the Ubuntu distros only
RevDistros == {d \in Distros : StartsWith(d, <<"Ubuntu">>)}

\* Rows a prior table may hold: no two with the same (distroID, revision)
PriorRows ==
    { [id |-> 1, distroID |-> Ubuntu,   revision |-> TagA],
      [id |-> 2, distroID |-> Ubuntu,   revision |-> TagB],
      [id |-> 3, distroID |-> Ubuntu16, revision |-> TagA],
      [id |-> 4, distroID |-> Debian,   revision |-> <<"master">>],
      [id |-> 5, distroID |-> Suse,     revision |-> <<"SUSE", "12", "/", "master">>] }

RevDelete ==
    /\ revPc \in {"idle", "returned", "failed"}
    /\ \E d \in RevDistros, revs \in RevLists :
          /\ nextSubjectID + Len(revs) - 1 <= MaxSubjectID
          /\ revArg' = <<d, revs>>
          /\ subjects' = subjects \ RevsToDelete(subjects, d, revs)
    /\ revPre' = subjects
    /\ revPc' = "add"
    /\ UNCHANGED nextSubjectID
    /\ UNCHANGED <<monVars, sideVars>>

RevDeleteFail ==
    /\ revPc \in {"idle", "returned", "failed"}
    /\ \E d \in RevDistros, revs \in RevLists :
          /\ revArg' = <<d, revs>>
          /\ subjects' = SessionRollback(subjects, subjects \ RevsToDelete(subjects, d, revs))
    /\ revPre' = subjects
    /\ revPc' = "failed"
    /\ UNCHANGED nextSubjectID
    /\ UNCHANGED <<monVars, sideVars>>

RevAdd ==
    /\ revPc = "add"
    /\ subjects' = AddRevisions(subjects, nextSubjectID, revArg[1], revArg[2]).tbl
    /\ nextSubjectID' = AddRevisions(subjects, nextSubjectID, revArg[1], revArg[2]).nid
    /\ revPc' = "returned"
    /\ UNCHANGED <<revArg, revPre>>
    /\ UNCHANGED <<monVars, sideVars>>

RevAddFail ==
    /\ revPc = "add"
    /\ subjects' = SessionRollback(subjects,
                        AddRevisions(subjects, nextSubjectID, revArg[1], revArg[2]).tbl)
    /\ revPc' = "failed"
    /\ UNCHANGED <<nextSubjectID, revArg, revPre>>
    /\ UNCHANGED <<monVars, sideVars>>

InitRev ==
    /\ subjects \in SUBSET PriorRows
    /\ nextSubjectID = Cardinality(PriorRows) + 1
    /\ revPc = "idle"
    /\ revArg = <<>>
    /\ revPre = {}
    /\ missing = [k \in SubjectIDs \X PatchIDs |-> 0]
    /\ remoteHead = [k \in RemoteKeys |-> 1]
    /\ references = {}
    /\ pc = "idle"
    /\ todo = {}
    /\ cur = 0
    /\ started = {}
    /\ fetches = <<>>
    /\ cand = {}
    /\ ids = <<>>
    /\ err = "none"
    /\ nDeleted = 0
    /\ nAdded = 0
    /\ lastIds = {}
    /\ cut = {}
    /\ matchedCommits = {}
    /\ TrackAtRest
    /\ DetectAtRest
    /\ ScoreAtRest
    /\ SymAtRest
    /\ RemotesAtRest
    /\ PatchAtRest
    /\ OrderAtRest
    /\ CredAtRest

NextRev ==
    \/ RevDelete
    \/ RevDeleteFail
    \/ RevAdd
    \/ RevAddFail

SpecRev == InitRev /\ [][NextRev]_vars

----------------------------------------------------------------------------
(* Properties of the missing-patch reconciliation *)

\* monitor_subject returned for cur: both phases committed
Reconciled == pc \in {"loop", "done"} /\ cur # 0

\* The rows of subject sid are exactly one row per id of the set S
ExactlyRows(tbl, sid, S) ==
    \A p \in PatchIDs : tbl[<<sid, p>>] = (IF p \in S THEN 1 ELSE 0)

(* C1: once the delete phase followed by the add phase of monitor_subject   *)
(* has completed, the subject's persisted MissingPatchRecords are exactly    *)
(* one record per id of the computed id list and none for any other id.      *)
C1_SetEquality == Reconciled => ExactlyRows(missing, cur, Range(ids))

\* a reconcile that had rows to delete and rows to add has completed
C1_Witness == Reconciled /\ nDeleted > 0 /\ nAdded > 0

(* C2: when monitor_subject is over for a subject, a MissingPatchRecord      *)
(* exists iff this run found the pair missing; with an empty candidate set   *)
(* nothing was found missing, so the subject ends with no record.            *)
C2_RecordIffFoundMissing ==
    /\ Reconciled => SubjectRows(missing, cur) = Range(ids)
    /\ (pc = "aborted" /\ err = "empty") => SubjectRows(missing, cur) = {}

(* C3: a reconcile cut after its delete phase committed and before its add   *)
(* phase committed, then re-run from the start with the same id set, ends    *)
(* with the subject's rows equal to that set: none lost, none duplicated.    *)
C3_SelfHeals ==
    \A e \in cut : e[3] => (e[1] = cur /\ Reconciled /\ ExactlyRows(missing, cur, e[2]))

\* the re-run completed and had to insert what the cut run never added
C3_Witness == \E e \in cut : e[3] /\ nAdded > 0 /\ Cardinality(e[2]) > nAdded

(* C4: a reconcile of a subject that directly follows a completed reconcile  *)
(* of the same subject with the same id set deletes no row, inserts no row   *)
(* and leaves the table as it was.                                           *)
C4_SecondRunNoOp ==
    [][(/\ <<cur, Range(ids)>> \in lastIds
        /\ pc \in {"delete", "add"}
        /\ pc' \in {"add", "loop"})
       => (missing' = missing /\ nDeleted' = 0 /\ nAdded' = 0)]_vars

\* the delete phase of a repeated reconcile over a non-empty id set has run
C4_Witness == pc = "add" /\ <<cur, Range(ids)>> \in lastIds /\ ids # <<>>

----------------------------------------------------------------------------
(* Properties of the subject loop *)

NonDebian == {s.id : s \in {x \in subjects : ~IsDebian(x.distroID)}}

(* C5: if the processing of one subject fails, the run goes on: when the run *)
(* is over every non-skipped subject has been taken up by the loop.          *)
C5_RunContinuesAfterError ==
    pc \in {"done", "aborted"} => NonDebian \subseteq started

(* C5 as amended: an error in the processing of a subject leaves             *)
(* monitor_downstream at once; the subjects the loop had not reached are not *)
(* fetched or reconciled in that run.                                        *)
C5_ErrorEndsRun ==
    err # "none" => (pc = "aborted" /\ cur \in started /\ todo \cap started = {})

\* the first fetch of a run failed while another subject was still to come
C5_Witness ==
    /\ pc = "aborted"
    /\ err = "depth1"
    /\ todo \cap NonDebian # {}

(* C6: no step of the processing of subject cur, completing or failing,      *)
(* changes a MissingPatchRecord of another subject.                          *)
C6_OtherSubjectsUntouched ==
    [][\A k \in DOMAIN missing : k[1] # cur => missing'[k] = missing[k]]_vars

\* a subject failed between its phases after deleting, another one holds rows
C6_Witness ==
    /\ pc = "aborted"
    /\ err \in {"interrupt", "add"}
    /\ nDeleted > 0
    /\ \E t \in NonDebian : t # cur /\ SubjectRows(missing, t) # {}

----------------------------------------------------------------------------
(* Properties of the fetch window *)

\* positions of the loop body after the fetches of cur
PastFetch == pc \in {"pin", "detect", "match", "delete", "add"}

\* errors raised inside monitor_subject
SubjectErrors == {"detect", "empty", "match", "delete", "interrupt", "add"}

Issued(kind) == {i \in 1..Len(fetches) : fetches[i].kind = kind}

SinceResult(result) ==
    \E i \in 1..Len(fetches) : fetches[i].kind = "since" /\ fetches[i].result = result

\* the depth-1 fetch returned a head older than the window start
HeadOlder ==
    /\ fetches # <<>>
    /\ fetches[1].result = "ok"
    /\ CommitTime(fetches[1].head) < WindowStart

(* C7: the first fetch of a subject is the depth-1 fetch; a shallow-since    *)
(* fetch follows it iff the head the depth-1 fetch returned has a commit     *)
(* time at or after the window start; with an older head no further fetch is *)
(* issued and the subject is still pinned and handed to monitor_subject.     *)
C7_AdaptiveDepth ==
    /\ fetches # <<>> => fetches[1].kind = "depth1"
    /\ Issued("depth1") \subseteq {1}
    /\ Issued("since") \subseteq {2}
    /\ Issued("since") # {} =>
          (fetches[1].result = "ok" /\ CommitTime(fetches[1].head) >= WindowStart)
    /\ (PastFetch \/ Reconciled) =>
          (Issued("since") # {} <=> CommitTime(fetches[1].head) >= WindowStart)
    /\ HeadOlder => /\ Len(fetches) = 1
                    /\ pc # "since"
                    /\ pc = "aborted" => err \in SubjectErrors
                    /\ pc # "pin" => HasReference(references, LocalRef(Subject(cur)))

\* a subject whose head is older than the window was pinned and reconciled
C7_Witness == HeadOlder /\ Reconciled /\ nAdded > 0

\* a subject whose head is exactly at the window start got the second fetch
C7_WitnessInWindow ==
    /\ Reconciled
    /\ CommitTime(fetches[1].head) = WindowStart
    /\ FetchKinds(fetches) = <<"depth1", "since">>

(* C8: a shallow-since fetch rejected as unsupported is followed by exactly  *)
(* one unrestricted fetch of the same ref, the rejection is not raised, and  *)
(* the subject goes on to be pinned and reconciled; a shallow-since fetch    *)
(* failing otherwise gets no fallback fetch and its error is raised.         *)
C8_Fallback ==
    /\ SinceResult("unsupported") =>
          /\ err # "since"
          /\ IF pc = "fallback"
             THEN Issued("full") = {} /\ err = "none"
             ELSE /\ Issued("full") = {3}
                  /\ fetches[3].head \in Heads
                  /\ fetches[3].result = "ok" =>
                        (PastFetch \/ Reconciled \/ (pc = "aborted" /\ err \in SubjectErrors))
                  /\ fetches[3].result # "ok" => (pc = "aborted" /\ err = "full")
    /\ SinceResult("error") =>
          (Issued("full") = {} /\ pc = "aborted" /\ err = "since")
    /\ ~SinceResult("unsupported") => Issued("full") = {}

\* the fallback fetch ran once and the subject was reconciled
C8_Witness ==
    /\ SinceResult("unsupported")
    /\ FetchKinds(fetches) = <<"depth1", "since", "full">>
    /\ Reconciled

(* C9: while monitor_subject runs for a subject, the local reference it is   *)
(* given points at the head fetched for that subject in this run, also when  *)
(* the reference was created by an earlier run and the remote has moved.     *)
C9_PinnedAtFetchedHead ==
    pc \in {"detect", "match", "delete", "add"} =>
        /\ HasReference(references, LocalRef(Subject(cur)))
        /\ RefCommit(references, LocalRef(Subject(cur))) = FetchHead(fetches)

----------------------------------------------------------------------------
(* Properties of update_revisions_for_distro *)

RowsOf(tbl, d, rev) == {x \in tbl : x.distroID = d /\ x.revision = rev}

(* C10: when update_revisions_for_distro(d, revs) has returned, the rows of  *)
(* distro d are exactly one per revision of revs, none for another revision  *)
(* and no duplicate, and the rows of every other distro are as before.       *)
C10_SubjectsMatchRevs ==
    revPc = "returned" =>
        /\ \A r \in Range(revArg[2]) : Cardinality(RowsOf(subjects, revArg[1], r)) = 1
        /\ \A x \in subjects : x.distroID = revArg[1] => x.revision \in Range(revArg[2])
        /\ {x \in subjects : x.distroID # revArg[1]} = {x \in revPre : x.distroID # revArg[1]}
        /\ \A x, y \in subjects : x.id = y.id => x = y

\* a later call of a sequence deleted a row, added a row and kept one, while
\* other distros hold rows
C10_Witness ==
    /\ revPc = "returned"
    /\ \E x \in revPre : x.id > Cardinality(PriorRows) /\ x \notin subjects
    /\ \E x \in subjects : x \notin revPre
    /\ \E x \in subjects : x \in revPre /\ x.distroID = revArg[1]
    /\ \E x \in subjects : x.distroID # revArg[1]

----------------------------------------------------------------------------
(* monitor_downstream: the tracked-revision update over the Distros table, *)
(* update_tracked_revisions(distro_id, repo)                                *)

MaxTags == 4

\* The monitor and update_revisions_for_distro called on its own are not running
MonitorAtRest ==
    /\ missing = [k \in SubjectIDs \X PatchIDs |-> 0]
    /\ remoteHead = [k \in RemoteKeys |-> 1]
    /\ references = {}
    /\ pc = "idle"
    /\ todo = {}
    /\ cur = 0
    /\ started = {}
    /\ fetches = <<>>
    /\ cand = {}
    /\ ids = <<>>
    /\ err = "none"
    /\ nDeleted = 0
    /\ nAdded = 0
    /\ lastIds = {}
    /\ cut = {}
    /\ matchedCommits = {}

RevAtRest ==
    /\ revPc = "idle"
    /\ revArg = <<>>
    /\ revPre = {}

\* x in s, for a marker x that is one token of s
Contains(s, x) == \E i \in 1..Len(s) : s[i] = x

\* The tags of a remote in the order --sort=v:refname lists them; a line is
\* "<sha>\trefs/tags/<name>"
RemoteTags ==
    << <<"sha", "refs", "/", "tags", "/", "v1", "azure">>,
       <<"sha", "refs", "/", "tags", "/", "v2", "azure", "edge">>,
       <<"sha", "refs", "/", "tags", "/", "v3", "azure">>,
       <<"sha", "refs", "/", "tags", "/", "v4", "azure", "cvm">>,
       <<"sha", "refs", "/", "tags", "/", "v5", "azure", "fde">>,
       <<"sha", "refs", "/", "tags", "/", "v6", "generic">>,
       <<"sha", "refs", "/", "tags", "/", "v7", "azure">> >>

\* The sets of tags a remote may hold
TagSets == {S \in SUBSET (1..Len(RemoteTags)) : Cardinality(S) <= MaxTags}

\* repo.git.ls_remote("--t", "--refs", "--sort=v:refname", distro_id): the
\* lines of the tags S the remote holds, from index i on
RECURSIVE LsRemote(_, _)
LsRemote(S, i) ==
    IF i > Len(RemoteTags) THEN <<>>
    ELSE (IF i \in S THEN <<RemoteTags[i]>> ELSE <<>>) \o LsRemote(S, i + 1)

\* out.split("\n"): an empty output is one empty line
SplitLines(out) == IF out = <<>> THEN << <<>> >> ELSE out

\* tag_names = [tag_line.split("/", 1)[-1] for tag_line in tag_lines]
TagNames(lines) == [i \in 1..Len(lines) |-> AfterFirstSlash(lines[i])]

\* variant: the filter without its last exclusion
KeepTagWithFde(x) ==
    Contains(x, "azure") /\ ~Contains(x, "edge") /\ ~Contains(x, "cvm")

\* lambda x: "azure" in x and "edge" not in x and "cvm" not in x and "fde" not in x
KeepTag(x) ==
    Contains(x, "azure") /\ ~Contains(x, "edge") /\ ~Contains(x, "cvm")
        /\ ~Contains(x, "fde")

\* s[-2:]
LastTwo(s) == SubSeq(s, IF Len(s) > 2 THEN Len(s) - 1 ELSE 1, Len(s))

\* latest_two_kernels of the given tag lines
SelectRevisions(lines) == LastTwo(SelectSeq(TagNames(lines), KeepTag))

\* latest_two_kernels of the update of distro d in this run
Selected(d) == (CHOOSE e \in policy : e[1] = d)[2]

\* Rows the table may hold when a run begins: revisions of earlier runs and
\* rows entered by hand
TrackRows ==
    { [id |-> 1, distroID |-> Ubuntu,   revision |-> <<"tags", "/", "v1", "azure">>],
      [id |-> 2, distroID |-> Ubuntu,   revision |-> <<"tags", "/", "v2", "azure", "edge">>],
      [id |-> 3, distroID |-> Ubuntu16, revision |-> <<"tags", "/", "v3", "azure">>],
      [id |-> 4, distroID |-> Debian,   revision |-> <<"master">>],
      [id |-> 5, distroID |-> Suse,     revision |-> <<"SUSE", "12", "/", "master">>] }

\* What the tracked-revision update leaves alone
offTrack == <<revPc, revArg, revPre, monVars, detVars, scoreVars, symVars, credVars, ordVars, patchVars, remVars>>

\* for (distro_id,) in session.query(Distros.distroID).all(): the step runs
\* once in a run of monitor_downstream
TrackStart ==
    /\ trackPc = "idle"
    /\ trackTodo' = Distros
    /\ trackCur' = <<>>
    /\ trackLines' = <<>>
    /\ policy' = {}
    /\ trackPre' = subjects
    /\ trackPc' = "loop"
    /\ UNCHANGED <<subjects, nextSubjectID, offTrack>>

\* update_tracked_revisions of a distro whose id does not start with "Ubuntu"
\* returns at once
TrackSkip ==
    /\ trackPc = "loop"
    /\ \E d \in trackTodo \ RevDistros : trackTodo' = trackTodo \ {d}
    /\ UNCHANGED <<trackPc, trackCur, trackLines, policy, trackPre>>
    /\ UNCHANGED <<subjects, nextSubjectID, offTrack>>

\* ls-remote, the filter and tag_names[-2:]
TrackList ==
    /\ trackPc = "loop"
    /\ \E d \in trackTodo \cap RevDistros, S \in TagSets :
          /\ trackTodo' = trackTodo \ {d}
          /\ trackCur' = d
          /\ trackLines' = SplitLines(LsRemote(S, 1))
          /\ policy' = policy \cup {<<d, SelectRevisions(SplitLines(LsRemote(S, 1)))>>}
    /\ trackPc' = "delete"
    /\ UNCHANGED <<trackPre, subjects, nextSubjectID, offTrack>>

\* ls-remote raises GitCommandError: it leaves monitor_downstream
TrackListFail ==
    /\ trackPc = "loop"
    /\ \E d \in trackTodo \cap RevDistros :
          /\ trackTodo' = trackTodo \ {d}
          /\ trackCur' = d
    /\ trackLines' = <<>>
    /\ trackPc' = "failed"
    /\ UNCHANGED <<policy, trackPre, subjects, nextSubjectID, offTrack>>

\* update_revisions_for_distro: the delete session
TrackDelete ==
    /\ trackPc = "delete"
    /\ subjects' = subjects \ RevsToDelete(subjects, trackCur, Selected(trackCur))
    /\ trackPc' = "add"
    /\ UNCHANGED <<trackTodo, trackCur, trackLines, policy, trackPre>>
    /\ UNCHANGED <<nextSubjectID, offTrack>>

TrackDeleteFail ==
    /\ trackPc = "delete"
    /\ subjects' = SessionRollback(subjects,
                       subjects \ RevsToDelete(subjects, trackCur, Selected(trackCur)))
    /\ trackPc' = "failed"
    /\ UNCHANGED <<trackTodo, trackCur, trackLines, policy, trackPre>>
    /\ UNCHANGED <<nextSubjectID, offTrack>>

\* update_revisions_for_distro: the add session
TrackAdd ==
    /\ trackPc = "add"
    /\ subjects' = AddRevisions(subjects, nextSubjectID, trackCur, Selected(trackCur)).tbl
    /\ nextSubjectID' = AddRevisions(subjects, nextSubjectID, trackCur, Selected(trackCur)).nid
    /\ trackPc' = "loop"
    /\ UNCHANGED <<trackTodo, trackCur, trackLines, policy, trackPre>>
    /\ UNCHANGED offTrack

TrackAddFail ==
    /\ trackPc = "add"
    /\ subjects' = SessionRollback(subjects,
                       AddRevisions(subjects, nextSubjectID, trackCur, Selected(trackCur)).tbl)
    /\ trackPc' = "failed"
    /\ UNCHANGED <<trackTodo, trackCur, trackLines, policy, trackPre>>
    /\ UNCHANGED <<nextSubjectID, offTrack>>

\* the loop over the Distros is over
TrackEnd ==
    /\ trackPc = "loop"
    /\ trackTodo = {}
    /\ trackPc' = "finished"
    /\ UNCHANGED <<trackTodo, trackCur, trackLines, policy, trackPre>>
    /\ UNCHANGED <<subjects, nextSubjectID, offTrack>>

InitTrack ==
    /\ subjects \in {T \in SUBSET TrackRows :
                       \A x \in TrackRows : ~StartsWith(x.distroID, <<"Ubuntu">>) => x \in T}
    /\ nextSubjectID = Cardinality(TrackRows) + 1
    /\ RevAtRest
    /\ MonitorAtRest
    /\ TrackAtRest
    /\ DetectAtRest
    /\ ScoreAtRest
    /\ SymAtRest
    /\ RemotesAtRest
    /\ PatchAtRest
    /\ OrderAtRest
    /\ CredAtRest

NextTrack ==
    \/ TrackStart
    \/ TrackSkip
    \/ TrackList
    \/ TrackListFail
    \/ TrackDelete
    \/ TrackDeleteFail
    \/ TrackAdd
    \/ TrackAddFail
    \/ TrackEnd

SpecTrack == InitTrack /\ [][NextTrack]_vars

----------------------------------------------------------------------------
(* Properties of the tracked-revision update *)

\* the revisions distro d holds in table tbl
RevisionsOf(tbl, d) == {x.revision : x \in {y \in tbl : y.distroID = d}}

\* the revisions the policy selected for d in this run: none when the run
\* selected nothing for d
PolicyOutput(d) == UNION {Range(e[2]) : e \in {f \in policy : f[1] = d}}

(* C11, as stated: when the tracked-revision update of a run has finished,  *)
(* every distro of the Distros table holds exactly the revisions the policy  *)
(* selected for it in this run.                                              *)
C11_AllDistrosFollowPolicy ==
    trackPc = "finished" =>
        \A d \in Distros : RevisionsOf(subjects, d) = PolicyOutput(d)

(* C11, amended: when the tracked-revision update of a run has finished,    *)
(* every distro whose id starts with "Ubuntu" holds exactly the revisions    *)
(* selected for it in this run; the rows of every other distro are, during   *)
(* and after the update, the rows it held when the update began.             *)
C11_UbuntuFollowsPolicy ==
    /\ trackPc = "finished" =>
          \A d \in Distros :
              StartsWith(d, <<"Ubuntu">>) =>
                  /\ \E e \in policy : e[1] = d
                  /\ RevisionsOf(subjects, d) = PolicyOutput(d)
    /\ trackPc # "idle" =>
          \A d \in Distros :
              ~StartsWith(d, <<"Ubuntu">>) =>
                  {x \in subjects : x.distroID = d} = {x \in trackPre : x.distroID = d}

\* a finished update dropped a hand-entered Ubuntu revision, added a selected
\* one, and a distro outside the policy still holds its row
C11_Witness ==
    /\ trackPc = "finished"
    /\ \E x \in trackPre : x.distroID = Ubuntu /\ x \notin subjects
    /\ \E x \in subjects : x.distroID = Ubuntu /\ x \notin trackPre
    /\ \E x \in subjects : x.distroID = Suse

\* a tag name the policy accepts
Qualifies(x) ==
    /\ \E i \in 1..Len(x) : x[i] = "azure"
    /\ \A i \in 1..Len(x) : x[i] \notin {"edge", "cvm", "fde"}

\* positions of the listed lines whose tag qualifies
Qualifying == {i \in 1..Len(trackLines) : Qualifies(AfterFirstSlash(trackLines[i]))}

\* the last two of them (all of them when there are fewer)
TopTwo == {i \in Qualifying : Cardinality({j \in Qualifying : j > i}) < 2}

C12_WitnessNone ==
    /\ trackPc = "add"
    /\ Len(trackLines) > 1
    /\ Qualifying = {}
    /\ \E x \in trackPre : x.distroID = trackCur

----------------------------------------------------------------------------
(* monitor_subject: the two git log calls and the candidate set *)

\* The values of the patch-id git computes for a commit
PatchKeys == {"p", "q"}

\* What a repository may hold: which commits origin/master reaches (up),
\* which the reference reaches (down), which are merges, which are committed
\* within --since, which touch the tracked paths, and their patch-id
Histories ==
    {g \in [up : SUBSET Commits, down : SUBSET Commits, merges : SUBSET Commits,
            window : SUBSET Commits, paths : SUBSET Commits,
            pid : [Commits -> PatchKeys]] :
        g.up \cup g.down = Commits}

\* git log --no-merges --since=... origin/master -- <tracked paths>
UpstreamCommits(g) ==
    {c \in g.up : c \notin g.merges /\ c \in g.window /\ c \in g.paths}

\* reference...origin/master: the two sides of the symmetric difference
LeftSide(g) == g.down \ g.up

RightSide(g) == g.up \ g.down

\* --cherry-pick: the commit introduces the same change as a commit of the
\* other side (merges have no patch-id)
SameChangeOnLeft(g, c) ==
    \E o \in LeftSide(g) : o \notin g.merges /\ g.pid[o] = g.pid[c]

\* git log --no-merges --right-only --cherry-pick --since=... reference...origin/master
RightOnlyCherries(g) ==
    {c \in RightSide(g) :
        c \notin g.merges /\ c \in g.window /\ ~SameChangeOnLeft(g, c)}

\* What the detector of monitor_subject leaves alone
offDetect == <<revVars, monVars, trackVars, scoreVars, symVars, credVars, ordVars, patchVars, remVars>>

\* monitor_subject up to the intersection
DetectCandidates ==
    /\ detected = <<>>
    /\ detected' = <<UpstreamCommits(gitLog), RightOnlyCherries(gitLog),
                     MissingCherries(UpstreamCommits(gitLog), RightOnlyCherries(gitLog))>>
    /\ UNCHANGED <<gitLog, offDetect>>

InitDetect ==
    /\ gitLog \in Histories
    /\ detected = <<>>
    /\ subjects = MonitoredSubjects
    /\ nextSubjectID = Cardinality(MonitoredSubjects) + 1
    /\ RevAtRest
    /\ MonitorAtRest
    /\ TrackAtRest
    /\ ScoreAtRest
    /\ SymAtRest
    /\ RemotesAtRest
    /\ PatchAtRest
    /\ OrderAtRest
    /\ CredAtRest

NextDetect == DetectCandidates

SpecDetect == InitDetect /\ [][NextDetect]_vars

----------------------------------------------------------------------------
(* Properties of the candidate detection *)

\* the content of c is on the reference: c itself is reachable from it, or a
\* commit only the reference reaches introduces the same change
OnReference(c) ==
    \/ c \in gitLog.down
    \/ \E o \in gitLog.down \ gitLog.up :
          o \notin gitLog.merges /\ gitLog.pid[o] = gitLog.pid[c]

----------------------------------------------------------------------------
(* Properties of the matching step of monitor_subject *)

\* a MissingPatchRecord of subject sid for the patch of commit c exists
RecordedMissing(sid, c) ==
    \E p \in PatchData : p.commitID = c /\ missing[<<sid, p.patchID>>] > 0

(* C14, as stated: once monitor_subject has completed for a subject, every  *)
(* candidate commit of the detector has a MissingPatchRecord exactly when    *)
(* the matcher returned no downstream match for it.                          *)
C14_EveryCandidateSettled ==
    Reconciled =>
        \A c \in cand : RecordedMissing(cur, c) <=> c \notin matchedCommits

(* C14, amended: once monitor_subject has completed for a subject, every    *)
(* candidate commit that has a PatchData row has a MissingPatchRecord        *)
(* exactly when the matcher returned no downstream match for it; a           *)
(* candidate without a PatchData row is never given to the matcher and has   *)
(* no record.                                                                *)
C14_CandidatesWithPatchDataSettled ==
    Reconciled =>
        /\ \A p \in PatchData :
              p.commitID \in cand =>
                  (missing[<<cur, p.patchID>>] > 0 <=> p.commitID \notin matchedCommits)
        /\ \A c \in cand :
              (~\E p \in PatchData : p.commitID = c) =>
                  (c \notin matchedCommits /\ ~RecordedMissing(cur, c))

\* a completed subject had a matched candidate, an unmatched one that is now
\* recorded, and a candidate without a PatchData row
C14_Witness ==
    /\ Reconciled
    /\ matchedCommits # {}
    /\ \E c \in cand : c \notin matchedCommits /\ RecordedMissing(cur, c)
    /\ \E c \in cand : \A p \in PatchData : p.commitID # c

----------------------------------------------------------------------------
(* insert_patch: the confidence weights of a downstream family and the     *)
(* confidence of a patch; weights and signals are counted in hundredths     *)

\* The indicators parse_log is called with for a downstream distro, split
\* where insert_patch tests their prefix
Indicators == { <<"Ub", "untu">>, <<"De", "bian">>, <<"SUSE">> }

\* variant: the last weight of the first vector is 0.1
WeightsTenth(indicator) ==
    IF StartsWith(indicator, <<"Ub">>) \/ StartsWith(indicator, <<"De">>)
    THEN <<20, 49, 10, 20, 10>>
    ELSE IF StartsWith(indicator, <<"SUSE">>)
         THEN <<0, 100, 0, 0, 0>>
         ELSE <<>>

\* confidence_weight(0.2, 0.49, 0.1, 0.2, 0.01) and confidence_weight(0, 1, 0, 0, 0)
Weights(indicator) ==
    IF StartsWith(indicator, <<"Ub">>) \/ StartsWith(indicator, <<"De">>)
    THEN <<20, 49, 10, 20, 1>>
    ELSE IF StartsWith(indicator, <<"SUSE">>)
         THEN <<0, 100, 0, 0, 0>>
         ELSE <<>>

\* The values a similarity signal takes in the model: 0, 0.5 and 1
SignalLevels == {0, 50, 100}

SignalVectors == [1..5 -> SignalLevels]

\* sum of w[i] * s[i] over i >= k, in ten-thousandths
RECURSIVE DotProduct(_, _, _)
DotProduct(w, s, k) ==
    IF k > Len(w) THEN 0 ELSE w[k] * s[k] + DotProduct(w, s, k + 1)

\* What insert_patch leaves alone
offScore == <<revVars, monVars, trackVars, detVars, symVars, credVars, ordVars, patchVars, remVars>>

\* match.get_matching_patch(patch, conf): the confidence of the patch
ScorePatch ==
    /\ signals # <<>>
    /\ score = {}
    /\ score' = {DotProduct(Weights(signals[1]), signals[2], 1)}
    /\ UNCHANGED <<signals, offScore>>

InitScore ==
    /\ signals \in Indicators \X SignalVectors
    /\ score = {}
    /\ subjects = MonitoredSubjects
    /\ nextSubjectID = Cardinality(MonitoredSubjects) + 1
    /\ RevAtRest
    /\ MonitorAtRest
    /\ TrackAtRest
    /\ DetectAtRest
    /\ SymAtRest
    /\ RemotesAtRest
    /\ PatchAtRest
    /\ OrderAtRest
    /\ CredAtRest

NextScore == ScorePatch

SpecScore == InitScore /\ [][NextScore]_vars

----------------------------------------------------------------------------
(* Properties of the confidence score *)

RECURSIVE SumFrom(_, _)
SumFrom(w, k) == IF k > Len(w) THEN 0 ELSE w[k] + SumFrom(w, k + 1)

\* w is 1 at position k and 0 elsewhere
OneHotAt(w, k) == w[k] = 100 /\ \A i \in 1..Len(w) : i # k => w[i] = 0

(* C15: each weight vector of insert_patch has five components in [0,1]     *)
(* that sum to 1; the score of any signal vector in [0,1]^5 lies in [0,1],   *)
(* the all-ones signal vector scores exactly 1, and under the one-hot        *)
(* vector the score is the signal at the hot index.                          *)
C15_ScoreBounds ==
    /\ \A ind \in Indicators :
          /\ Len(Weights(ind)) = 5
          /\ \A i \in 1..5 : Weights(ind)[i] \in 0..100
          /\ SumFrom(Weights(ind), 1) = 100
    /\ \A v \in score :
          /\ v \in 0..(100 * 100)
          /\ (\A i \in 1..5 : signals[2][i] = 100) => v = 100 * 100
          /\ \A k \in 1..5 :
                OneHotAt(Weights(signals[1]), k) => v = 100 * signals[2][k]

\* a patch was scored under the one-hot vector with a signal of 0.5 at the
\* hot index and 1 elsewhere
C15_Witness ==
    /\ score = {50 * 100}
    /\ OneHotAt(Weights(signals[1]), 2)
    /\ \A i \in 1..5 : i # 2 => signals[2][i] = 100

\* a patch of the mixed vector was scored with all signals at 1
C15_WitnessAllOnes ==
    /\ score # {}
    /\ ~\E k \in 1..5 : OneHotAt(Weights(signals[1]), k)
    /\ \A i \in 1..5 : signals[2][i] = 100

----------------------------------------------------------------------------
(* Symbols.map_symbols_to_patch and Symbols.symbol_checker                 *)
(* (src/comma/util/symbols.py). A string of symbols is the sequence of its  *)
(* fields between single spaces: "" is <<"">>, " " is <<"", "">>, "a b" is  *)
(* <<"a", "b">>.                                                            *)

\* prev_commit, the commit before the first tracked patch
PrevCommit == "097c1bd"

\* The commit ids of PatchData, in the order sorted() gives them
SortedIds == <<"1f", "9c">>

\* get_patch_symbols: the commit ids ordered by PatchData.commitTime; the
\* table may be empty, and commit time need not follow the order of the ids
CommitLists == { <<>>, <<"1f">>, <<"1f", "9c">>, <<"9c", "1f">> }

\* The function symbols a tree may hold
TreeMenu == { {"a", "b"}, {"a", "b", "c"}, {"a", "c", "d"}, {} }

\* What PatchData.symbols may hold before a run: NULL or an earlier text
PriorFields == { {}, {<<"z">>} }

\* The symbols_in_file a symbol file may give: one entry per stripped line
RefLists == { {"a", "c"}, {"a", "b", "c", "d"}, {"a", "c", ""}, {} }

\* " ".join(diff_symbols) of a non-empty set; the order of the set is not
\* fixed and nothing reads it
RECURSIVE JoinFields(_)
JoinFields(S) ==
    IF S = {} THEN <<>>
    ELSE LET x == CHOOSE y \in S : TRUE IN <<x>> \o JoinFields(S \ {x})

\* " ".join(diff_symbols)
Join(S) == IF S = {} THEN <<"">> ELSE JoinFields(S)

\* set(symbols.split(" "))
Split(text) == Range(text)

\* variant: the difference in both directions
DiffBothWays(after, before) == (after \ before) \cup (before \ after)

\* diff_symbols = after_patch_apply - before_patch_apply
DiffSymbols(after, before) == after \ before

\* variant: no finally clause
OnRaiseLeave == "exited"

\* an exception raised inside the try block runs the finally clause
OnRaise == "restore"

\* What the symbol tracker leaves alone
offSym == <<revVars, monVars, trackVars, detVars, scoreVars, credVars, ordVars, patchVars, remVars>>

\* What a run of the symbol tracker only reads
symFixed == <<symCommits, symTree, symPrior, symEntry>>

\* initial_reference = self.repo.head.reference; self.repo.checkout(prev_commit)
SymStart ==
    /\ symPc = "idle"
    /\ symHead # "HEAD"
    /\ symInitial' = symHead
    /\ symHead' = PrevCommit
    /\ symPc' = IF symCommits = <<>> THEN "restore" ELSE "baseline"
    /\ symExit' = IF symCommits = <<>> THEN "empty" ELSE symExit
    /\ UNCHANGED <<symFixed, symField, symI, symBefore, symAfter, symSeen,
                   symFailedAt, symRef, symResult, offSym>>

\* head.reference of a detached HEAD raises before the try block is entered
SymStartDetached ==
    /\ symPc = "idle"
    /\ symHead = "HEAD"
    /\ symPc' = "exited"
    /\ symExit' = "reference"
    /\ UNCHANGED <<symFixed, symField, symHead, symInitial, symI, symBefore,
                   symAfter, symSeen, symFailedAt, symRef, symResult, offSym>>

\* self.repo.checkout(prev_commit) raises
SymStartFail ==
    /\ symPc = "idle"
    /\ symHead # "HEAD"
    /\ symInitial' = symHead
    /\ symPc' = OnRaise
    /\ symExit' = "checkout"
    /\ UNCHANGED <<symFixed, symField, symHead, symI, symBefore, symAfter,
                   symSeen, symFailedAt, symRef, symResult, offSym>>

\* before_patch_apply = get_symbols(...) in the first iteration
SymBaseline ==
    /\ symPc = "baseline"
    /\ symBefore' = {symTree[symHead]}
    /\ symSeen' = symSeen \cup {<<symHead, symTree[symHead]>>}
    /\ symPc' = "checkout"
    /\ UNCHANGED <<symFixed, symField, symHead, symInitial, symI, symAfter,
                   symFailedAt, symExit, symRef, symResult, offSym>>

\* subprocess.run raises: the shell, or awk at the end of the pipeline, failed
SymBaselineRaise ==
    /\ symPc = "baseline"
    /\ symPc' = OnRaise
    /\ symExit' = "extract"
    /\ UNCHANGED <<symFixed, symField, symHead, symInitial, symI, symBefore,
                   symAfter, symSeen, symFailedAt, symRef, symResult, offSym>>

\* ctags exits non-zero: the status of the pipeline is awk's, check=True sees
\* 0, and get_symbols returns what ctags wrote before it stopped
SymBaselineMasked ==
    /\ symPc = "baseline"
    /\ symFailedAt = {}
    /\ \E part \in SUBSET symTree[symHead] :
          /\ symBefore' = {part}
          /\ symSeen' = symSeen \cup {<<symHead, part>>}
    /\ symFailedAt' = {symI}
    /\ symPc' = "checkout"
    /\ UNCHANGED <<symFixed, symField, symHead, symInitial, symI, symAfter,
                   symExit, symRef, symResult, offSym>>

\* self.repo.checkout(commit)
SymCheckout ==
    /\ symPc = "checkout"
    /\ symHead' = symCommits[symI]
    /\ symPc' = "extract"
    /\ UNCHANGED <<symFixed, symField, symInitial, symI, symBefore, symAfter,
                   symSeen, symFailedAt, symExit, symRef, symResult, offSym>>

SymCheckoutFail ==
    /\ symPc = "checkout"
    /\ symPc' = OnRaise
    /\ symExit' = "checkout"
    /\ UNCHANGED <<symFixed, symField, symHead, symInitial, symI, symBefore,
                   symAfter, symSeen, symFailedAt, symRef, symResult, offSym>>

\* after_patch_apply = get_symbols(...)
SymExtract ==
    /\ symPc = "extract"
    /\ symAfter' = {symTree[symHead]}
    /\ symSeen' = symSeen \cup {<<symHead, symTree[symHead]>>}
    /\ symPc' = "persist"
    /\ UNCHANGED <<symFixed, symField, symHead, symInitial, symI, symBefore,
                   symFailedAt, symExit, symRef, symResult, offSym>>

SymExtractRaise ==
    /\ symPc = "extract"
    /\ symPc' = OnRaise
    /\ symExit' = "extract"
    /\ UNCHANGED <<symFixed, symField, symHead, symInitial, symI, symBefore,
                   symAfter, symSeen, symFailedAt, symRef, symResult, offSym>>

SymExtractMasked ==
    /\ symPc = "extract"
    /\ symFailedAt = {}
    /\ \E part \in SUBSET symTree[symHead] :
          /\ symAfter' = {part}
          /\ symSeen' = symSeen \cup {<<symHead, part>>}
    /\ symFailedAt' = {symI}
    /\ symPc' = "persist"
    /\ UNCHANGED <<symFixed, symField, symHead, symInitial, symI, symBefore,
                   symExit, symRef, symResult, offSym>>

\* patch.symbols = " ".join(diff_symbols) in a session of its own, then
\* before_patch_apply = after_patch_apply and the next commit
SymPersist ==
    /\ symPc = "persist"
    /\ \E after \in symAfter, before \in symBefore :
          symField' = [symField EXCEPT ![symCommits[symI]] =
                           {Join(DiffSymbols(after, before))}]
    /\ symBefore' = symAfter
    /\ symI' = symI + 1
    /\ symPc' = IF symI < Len(symCommits) THEN "checkout" ELSE "restore"
    /\ symExit' = IF symI < Len(symCommits) THEN symExit ELSE "finished"
    /\ UNCHANGED <<symFixed, symHead, symInitial, symAfter, symSeen,
                   symFailedAt, symRef, symResult, offSym>>

\* the session raises and is rolled back
SymPersistFail ==
    /\ symPc = "persist"
    /\ \E after \in symAfter, before \in symBefore :
          symField' = SessionRollback(symField,
                          [symField EXCEPT ![symCommits[symI]] =
                               {Join(DiffSymbols(after, before))}])
    /\ symPc' = OnRaise
    /\ symExit' = "persist"
    /\ UNCHANGED <<symFixed, symHead, symInitial, symI, symBefore, symAfter,
                   symSeen, symFailedAt, symRef, symResult, offSym>>

\* finally: self.repo.checkout(initial_reference)
SymRestore ==
    /\ symPc = "restore"
    /\ symHead' = symInitial
    /\ symPc' = "exited"
    /\ UNCHANGED <<symFixed, symField, symInitial, symI, symBefore, symAfter,
                   symSeen, symFailedAt, symExit, symRef, symResult, offSym>>

\* the checkout of the finally clause raises
SymRestoreFail ==
    /\ symPc = "restore"
    /\ symPc' = "exited"
    /\ symExit' = "restore"
    /\ UNCHANGED <<symFixed, symField, symHead, symInitial, symI, symBefore,
                   symAfter, symSeen, symFailedAt, symRef, symResult, offSym>>

\* text with the spaces at its end removed
RECURSIVE RTrim(_)
RTrim(text) ==
    IF Len(text) > 1 /\ text[Len(text)] = ""
    THEN RTrim(SubSeq(text, 1, Len(text) - 1))
    ELSE text

\* PatchData.symbols != " " as the database evaluates it: a NULL is not
\* selected; padded is TRUE for a collation that compares strings as if
\* padded with spaces to the same length
NotBlank(field, padded) ==
    /\ field # {}
    /\ \A text \in field :
          IF padded THEN RTrim(text) # RTrim(<<"", "">>) ELSE text # <<"", "">>

\* len(set(symbols.split(" ")) - symbols_in_file) > 0
MissesSymbol(field, ref) == \E text \in field : Split(text) \ ref # {}

\* sorted(...) of a set of commit ids
RECURSIVE SortedList(_, _)
SortedList(S, i) ==
    IF i > Len(SortedIds) THEN <<>>
    ELSE (IF SortedIds[i] \in S THEN <<SortedIds[i]>> ELSE <<>>) \o SortedList(S, i + 1)

\* the generator over the rows of the query, in the order of commitTime
SelectedByTime(padded, ref) ==
    LET Keep(c) == NotBlank(symField[c], padded) /\ MissesSymbol(symField[c], ref)
    IN  SelectSeq(symCommits, Keep)

\* symbol_checker(file_path)
SymCheck ==
    /\ symPc = "exited"
    /\ \E ref \in RefLists, padded \in BOOLEAN :
          /\ symRef' = ref
          /\ symResult' = SortedList(Range(SelectedByTime(padded, ref)), 1)
    /\ symPc' = "checked"
    /\ UNCHANGED <<symFixed, symField, symHead, symInitial, symI, symBefore,
                   symAfter, symSeen, symFailedAt, symExit, offSym>>

InitSym ==
    /\ symCommits \in CommitLists
    /\ symTree \in [{PrevCommit} \cup Range(symCommits) -> TreeMenu]
    /\ symField \in [Range(symCommits) -> PriorFields]
    /\ symPrior = symField
    /\ symHead \in {"master", "HEAD"}
    /\ symEntry = symHead
    /\ symInitial = ""
    /\ symPc = "idle"
    /\ symI = 1
    /\ symBefore = {}
    /\ symAfter = {}
    /\ symSeen = {}
    /\ symFailedAt = {}
    /\ symExit = "none"
    /\ symRef = {}
    /\ symResult = <<>>
    /\ subjects = MonitoredSubjects
    /\ nextSubjectID = Cardinality(MonitoredSubjects) + 1
    /\ RevAtRest
    /\ MonitorAtRest
    /\ TrackAtRest
    /\ DetectAtRest
    /\ ScoreAtRest
    /\ RemotesAtRest
    /\ PatchAtRest
    /\ OrderAtRest
    /\ CredAtRest

NextSym ==
    \/ SymStart
    \/ SymStartDetached
    \/ SymStartFail
    \/ SymBaseline
    \/ SymBaselineRaise
    \/ SymBaselineMasked
    \/ SymCheckout
    \/ SymCheckoutFail
    \/ SymExtract
    \/ SymExtractRaise
    \/ SymExtractMasked
    \/ SymPersist
    \/ SymPersistFail
    \/ SymRestore
    \/ SymRestoreFail
    \/ SymCheck

SpecSym == InitSym /\ [][NextSym]_vars

----------------------------------------------------------------------------
(* Properties of the symbol tracker *)

\* the commit before position i of commits: the baseline for the first
Predecessor(i) == IF i = 1 THEN PrevCommit ELSE symCommits[i - 1]

\* what get_symbols returned in this run for the tree of commit k
Seen(k) == UNION {e[2] : e \in {f \in symSeen : f[1] = k}}

\* the symbols of the persisted delta of commit k
PersistedDelta(k) == UNION {Range(text) \ {""} : text \in symField[k]}

\* positions of commits whose delta this run has persisted
Persisted == {i \in 1..Len(symCommits) : i < symI}

\* the symbols commit i removes
RemovedBy(i) == Seen(Predecessor(i)) \ Seen(symCommits[i])

(* C16, as stated: for every commit c[i] the run has persisted, delta[i] is *)
(* symbols(c[i]) minus symbols(c[i-1]) with the baseline before c[0]; a      *)
(* symbol a commit removes is in the delta of no commit; a symbol present    *)
(* in the predecessor is not in the delta.                                   *)
C16_RemovedSymbolInNoDelta ==
    \A i \in Persisted :
        /\ symField[symCommits[i]] # {}
        /\ PersistedDelta(symCommits[i])
               = {s \in Seen(symCommits[i]) : s \notin Seen(Predecessor(i))}
        /\ \A s \in RemovedBy(i) :
              \A j \in Persisted : s \notin PersistedDelta(symCommits[j])
        /\ \A s \in Seen(Predecessor(i)) : s \notin PersistedDelta(symCommits[i])

(* C16, amended: for every commit c[i] the run has persisted, delta[i] is   *)
(* symbols(c[i]) minus symbols(c[i-1]) with the baseline before c[0]; a      *)
(* symbol a commit removes is not in the delta of that commit, and is in     *)
(* the delta of another commit only if that commit introduced it; a symbol   *)
(* present in the predecessor is not in the delta.                           *)
C16_DeltaIsAdditive ==
    \A i \in Persisted :
        /\ symField[symCommits[i]] # {}
        /\ PersistedDelta(symCommits[i])
               = {s \in Seen(symCommits[i]) : s \notin Seen(Predecessor(i))}
        /\ \A s \in RemovedBy(i) :
              /\ s \notin PersistedDelta(symCommits[i])
              /\ \A j \in Persisted :
                    s \in PersistedDelta(symCommits[j]) =>
                        (s \in Seen(symCommits[j]) /\ s \notin Seen(Predecessor(j)))
        /\ \A s \in Seen(Predecessor(i)) : s \notin PersistedDelta(symCommits[i])

\* a run without a failure finished two commits; the second removed a symbol
\* of the baseline and introduced one
C16_Witness ==
    /\ symPc = "exited"
    /\ symExit = "finished"
    /\ symFailedAt = {}
    /\ Len(symCommits) = 2
    /\ RemovedBy(2) \cap Seen(PrevCommit) # {}
    /\ PersistedDelta(symCommits[1]) # {}
    /\ PersistedDelta(symCommits[2]) # {}

(* C17: whenever map_symbols_to_patch has exited - after the whole          *)
(* sequence, after an empty sequence, or after a failure of a checkout, of   *)
(* a symbol extraction or of a persistence step at any commit - the          *)
(* repository has checked out what it had checked out when the call began.   *)
C17_ReferenceRestored ==
    (/\ symPc \in {"exited", "checked"}
     /\ symExit \in {"finished", "empty", "checkout", "extract", "persist", "reference"})
        => symHead = symEntry

\* the extraction at the second commit raised and the call has exited
C17_Witness ==
    /\ symPc = "exited"
    /\ symExit = "extract"
    /\ symI = 2
    /\ symEntry = "master"

\* the call has exited after the whole sequence
C17_WitnessFinished ==
    /\ symPc = "exited"
    /\ symExit = "finished"
    /\ Len(symCommits) = 2

\* positions at which the symbol extraction failed: ctags exited non-zero,
\* or get_symbols raised
ExtractionFailedAt ==
    symFailedAt \cup (IF symExit = "extract" THEN {symI} ELSE {})

(* C18: if the symbol extraction fails while commit c[i] is processed, the  *)
(* error leaves map_symbols_to_patch, the deltas persisted for the commits   *)
(* before c[i] keep their computed values, and the symbol fields of c[i]     *)
(* and of the later commits are what they were before the run.               *)
C18_ExtractionFailureStopsRun ==
    symPc \in {"exited", "checked"} =>
        \A i \in ExtractionFailedAt :
            /\ symExit = "extract"
            /\ \A j \in 1..Len(symCommits) :
                  IF j < i
                  THEN PersistedDelta(symCommits[j])
                           = symTree[symCommits[j]] \ symTree[Predecessor(j)]
                  ELSE symField[symCommits[j]] = symPrior[symCommits[j]]

(* C19: symbol_checker returns a commit if and only if its persisted delta  *)
(* has a symbol that is not in the reference list; a commit whose delta is   *)
(* empty, or lies within the reference list, is not returned.                *)
C19_ReturnedIffSymbolMissing ==
    symPc = "checked" =>
        \A c \in Range(symCommits) :
            c \in Range(symResult) <=> PersistedDelta(c) \ symRef # {}

\* the position of commit c in the order of commit time
TimeOf(c) == CHOOSE i \in 1..Len(symCommits) : symCommits[i] = c

(* C20: the list symbol_checker returns is ordered by commit time, whatever *)
(* the order of the commit ids.                                              *)
C20_OrderedByCommitTime ==
    symPc = "checked" =>
        \A i, j \in 1..Len(symResult) :
            i < j => TimeOf(symResult[i]) < TimeOf(symResult[j])

----------------------------------------------------------------------------
(* DatabaseCredentials.__init__ (src/Setup/DbCred.py) *)

\* The elements __init__ reads and the attributes it sets from them, in order
CredElements ==
    << <<"DatabaseServer", "database_server">>,
       <<"DatabaseName", "database_name">>,
       <<"DatabaseUser", "database_user">>,
       <<"DatabasePassword", "database_password">> >>

\* variant: the token is not looked at before the clone
TokenNeverMissing(env) == FALSE

\* db_cred is None
TokenMissing(env) == env = {}

\* What the construction of the credentials leaves alone
offCred == <<revVars, monVars, trackVars, detVars, scoreVars, symVars, ordVars, patchVars, remVars>>

\* repo.remotes.origin.pull() of the secrets repository that is present
CredPull ==
    /\ credPc = "idle"
    /\ credPath
    /\ credCalls' = Append(credCalls, "pull")
    /\ credPc' = "parse"
    /\ UNCHANGED <<credPath, credEnv, credXml, credFields, credErr, offCred>>

CredPullFail ==
    /\ credPc = "idle"
    /\ credPath
    /\ credCalls' = Append(credCalls, "pull")
    /\ credPc' = "failed"
    /\ credErr' = "pull"
    /\ UNCHANGED <<credPath, credEnv, credXml, credFields, offCred>>

\* raise Exception("LSG-Secret Repo token not set ...")
CredNoToken ==
    /\ credPc = "idle"
    /\ ~credPath
    /\ TokenMissing(credEnv)
    /\ credPc' = "failed"
    /\ credErr' = "credential"
    /\ UNCHANGED <<credPath, credEnv, credXml, credCalls, credFields, offCred>>

\* git.Git(cst.PATH_TO_REPOS).clone(...)
CredClone ==
    /\ credPc = "idle"
    /\ ~credPath
    /\ ~TokenMissing(credEnv)
    /\ credCalls' = Append(credCalls, "clone")
    /\ credPc' = "parse"
    /\ UNCHANGED <<credPath, credEnv, credXml, credFields, credErr, offCred>>

\* the clone raises: the token is refused or the host is not reached
CredCloneFail ==
    /\ credPc = "idle"
    /\ ~credPath
    /\ ~TokenMissing(credEnv)
    /\ credCalls' = Append(credCalls, "clone")
    /\ credPc' = "failed"
    /\ credErr' = "clone"
    /\ UNCHANGED <<credPath, credEnv, credXml, credFields, offCred>>

\* tree = ET.parse(...); root = tree.getroot()
CredParse ==
    /\ credPc = "parse"
    /\ credPc' = "fields"
    /\ UNCHANGED <<credPath, credEnv, credXml, credCalls, credFields, credErr, offCred>>

\* the file is absent or is not well-formed
CredParseFail ==
    /\ credPc = "parse"
    /\ credPc' = "failed"
    /\ credErr' = "parse"
    /\ UNCHANGED <<credPath, credEnv, credXml, credCalls, credFields, offCred>>

\* self.<attribute> = root.find(<element>).text for the next element
CredSetField ==
    /\ credPc = "fields"
    /\ CredElements[Cardinality(credFields) + 1][1] \in credXml
    /\ credFields' = credFields \cup {CredElements[Cardinality(credFields) + 1][2]}
    /\ credPc' = IF Cardinality(credFields) + 1 = Len(CredElements) THEN "done" ELSE "fields"
    /\ UNCHANGED <<credPath, credEnv, credXml, credCalls, credErr, offCred>>

\* root.find(...) is None: .text raises AttributeError
CredFieldMissing ==
    /\ credPc = "fields"
    /\ CredElements[Cardinality(credFields) + 1][1] \notin credXml
    /\ credPc' = "failed"
    /\ credErr' = "attribute"
    /\ UNCHANGED <<credPath, credEnv, credXml, credCalls, credFields, offCred>>

InitCred ==
    /\ credPc = "idle"
    /\ credPath \in BOOLEAN
    /\ credEnv \in {{}, {"token"}}
    /\ credXml \in SUBSET {CredElements[i][1] : i \in 1..Len(CredElements)}
    /\ credCalls = <<>>
    /\ credFields = {}
    /\ credErr = "none"
    /\ subjects = MonitoredSubjects
    /\ nextSubjectID = Cardinality(MonitoredSubjects) + 1
    /\ RevAtRest
    /\ MonitorAtRest
    /\ TrackAtRest
    /\ DetectAtRest
    /\ ScoreAtRest
    /\ SymAtRest
    /\ RemotesAtRest
    /\ PatchAtRest
    /\ OrderAtRest

NextCred ==
    \/ CredPull
    \/ CredPullFail
    \/ CredNoToken
    \/ CredClone
    \/ CredCloneFail
    \/ CredParse
    \/ CredParseFail
    \/ CredSetField
    \/ CredFieldMissing

SpecCred == InitCred /\ [][NextCred]_vars

----------------------------------------------------------------------------
(* Properties of the credentials *)

(* C21: when the secrets repository is not present locally and the          *)
(* credential environment variable is unset, the construction fails with     *)
(* the credential error, no clone (nor any other git operation) having been  *)
(* attempted and no credential attribute having been set.                    *)
C21_MissingCredentialAborts ==
    (~credPath /\ credEnv = {}) =>
        /\ credCalls = <<>>
        /\ credFields = {}
        /\ credPc \in {"idle", "failed"}
        /\ credPc = "failed" => credErr = "credential"

\* the construction has failed for the missing credential
C21_Witness ==
    /\ ~credPath
    /\ credEnv = {}
    /\ credPc = "failed"
    /\ credErr = "credential"

----------------------------------------------------------------------------
(* Properties of the two reconcile sessions of monitor_subject *)

\* a step changes the rows of cur within the bounds the computed ids set
StepWithinBounds ==
    /\ SubjectRows(missing, cur) \cap Range(ids) \subseteq SubjectRows(missing', cur)
    /\ SubjectRows(missing', cur) \subseteq SubjectRows(missing, cur) \cup Range(ids)
    /\ \A p \in PatchIDs :
          /\ p \in Range(ids) => missing'[<<cur, p>>] >= missing[<<cur, p>>]
          /\ p \notin Range(ids) => missing'[<<cur, p>>] <= missing[<<cur, p>>]
          /\ (p \in Range(ids) /\ missing[<<cur, p>>] > 0) =>
                 missing'[<<cur, p>>] = missing[<<cur, p>>]

(* C22: every step of the reconcile of a subject (a committed delete        *)
(* session, a committed add session, or a session that is rolled back)       *)
(* takes the subject's persisted id set X to a set between X intersect S     *)
(* and X union S, S being the computed ids: no record with an id in S is     *)
(* deleted, none with an id outside S is inserted, and a record that is      *)
(* persisted with an id in S is neither deleted nor inserted again. From     *)
(* the prior set P on, every intermediate and final set therefore lies       *)
(* between P intersect S and P union S.                                      *)
C22_MinimalReconcile ==
    [][(pc \in {"delete", "add"}) => StepWithinBounds]_vars

\* the delete session has removed a record outside S and kept one inside S
C22_Witness ==
    /\ pc = "add"
    /\ nDeleted > 0
    /\ \E p \in Range(ids) : missing[<<cur, p>>] > 0

----------------------------------------------------------------------------
(* Properties of the read stage of monitor_subject *)

\* monitor_subject is detecting, loading or matching
Reading == pc \in {"detect", "match"}

\* a step of the read stage writes nothing and ends in the read stage, at
\* the delete phase, or with the error of a read step
ReadStep ==
    /\ missing' = missing
    /\ pc' \in {"detect", "match", "delete", "aborted"}
    /\ pc' = "aborted" => err' \in {"detect", "empty", "match"}

\* after a failed read step neither reconcile phase has run for the subject
NoPhaseRan ==
    (pc = "aborted" /\ err \in {"detect", "empty", "match"}) =>
        (nDeleted = 0 /\ nAdded = 0 /\ ids = <<>>)

(* C25: in monitor_subject the detection, the loading of the candidate      *)
(* patches, the downstream parsing and the matching all come before the      *)
(* first write: no step of them changes the MissingPatchRecords, and when    *)
(* one of them has failed for a subject neither the delete phase nor the     *)
(* add phase has run, so the subject's records are what they were before     *)
(* the call.                                                                 *)
C25_ReadsBeforeWrites ==
    [][(Reading => ReadStep) /\ NoPhaseRan']_vars

\* the matching has failed for a subject that holds records
C25_Witness ==
    /\ pc = "aborted"
    /\ err = "match"
    /\ SubjectRows(missing, cur) # {}

----------------------------------------------------------------------------
(* monitor_downstream and monitor_subject: the order of the stages of a run *)

\* variant: the detection runs before the local reference is pinned
StagesDetectFirst == <<"fetch", "detect", "pin", "match", "delete", "add">>

\* The stages of the loop body for one subject, as the code runs them: the
\* fetches, the tag at FETCH_HEAD, then monitor_subject's two git log calls,
\* the matching, the delete session and the add session
Stages == <<"fetch", "pin", "detect", "match", "delete", "add">>

\* What following the stages leaves alone
offOrder == <<revVars, monVars, trackVars, detVars, scoreVars, symVars, credVars, patchVars, remVars>>

\* the remotes are set up; the loop over the Distros begins
OrdStart ==
    /\ ordPc = "idle"
    /\ ordPc' = "update"
    /\ ordDistros' = Distros
    /\ UNCHANGED <<ordTodo, ordCur, ordStage, ordLog, offOrder>>

\* update_tracked_revisions(distro_id, repo) returns
OrdUpdate ==
    /\ ordPc = "update"
    /\ \E d \in ordDistros :
          /\ ordDistros' = ordDistros \ {d}
          /\ ordLog' = Append(ordLog, <<"update", d>>)
    /\ UNCHANGED <<ordPc, ordTodo, ordCur, ordStage, offOrder>>

\* update_tracked_revisions raises: ls-remote or one of the two sessions
OrdUpdateFail ==
    /\ ordPc = "update"
    /\ \E d \in ordDistros \cap RevDistros : ordDistros' = ordDistros \ {d}
    /\ ordPc' = "aborted"
    /\ UNCHANGED <<ordTodo, ordCur, ordStage, ordLog, offOrder>>

\* for subject in session.query(MonitoringSubjects).all():
OrdLoopBegin ==
    /\ ordPc = "update"
    /\ ordDistros = {}
    /\ ordPc' = "loop"
    /\ ordTodo' = {s.id : s \in subjects}
    /\ UNCHANGED <<ordDistros, ordCur, ordStage, ordLog, offOrder>>

\* if subject.distroID.startswith("Debian"): continue
OrdSkipDebian ==
    /\ ordPc = "loop"
    /\ \E i \in ordTodo :
          /\ IsDebian(Subject(i).distroID)
          /\ ordTodo' = ordTodo \ {i}
    /\ UNCHANGED <<ordPc, ordDistros, ordCur, ordStage, ordLog, offOrder>>

\* the loop body begins for a subject
OrdEnter ==
    /\ ordPc = "loop"
    /\ \E i \in ordTodo :
          /\ ~IsDebian(Subject(i).distroID)
          /\ ordTodo' = ordTodo \ {i}
          /\ ordCur' = i
    /\ ordStage' = 0
    /\ ordPc' = "body"
    /\ UNCHANGED <<ordDistros, ordLog, offOrder>>

\* the next stage of the loop body completes
OrdStage ==
    /\ ordPc = "body"
    /\ ordStage' = ordStage + 1
    /\ ordLog' = Append(ordLog, <<Stages[ordStage + 1], ordCur>>)
    /\ ordPc' = IF ordStage + 1 = Len(Stages) THEN "loop" ELSE "body"
    /\ UNCHANGED <<ordDistros, ordTodo, ordCur, offOrder>>

\* the next stage raises: nothing encloses the loop body
OrdStageFail ==
    /\ ordPc = "body"
    /\ ordPc' = "aborted"
    /\ UNCHANGED <<ordDistros, ordTodo, ordCur, ordStage, ordLog, offOrder>>

\* print("Finished monitoring downstream!")
OrdEnd ==
    /\ ordPc = "loop"
    /\ ordTodo = {}
    /\ ordPc' = "done"
    /\ UNCHANGED <<ordDistros, ordTodo, ordCur, ordStage, ordLog, offOrder>>

InitOrder ==
    /\ ordPc = "idle"
    /\ ordDistros = {}
    /\ ordTodo = {}
    /\ ordCur = 0
    /\ ordStage = 0
    /\ ordLog = <<>>
    /\ subjects = MonitoredSubjects
    /\ nextSubjectID = Cardinality(MonitoredSubjects) + 1
    /\ RevAtRest
    /\ MonitorAtRest
    /\ TrackAtRest
    /\ DetectAtRest
    /\ ScoreAtRest
    /\ SymAtRest
    /\ RemotesAtRest
    /\ PatchAtRest
    /\ CredAtRest

NextOrder ==
    \/ OrdStart
    \/ OrdUpdate
    \/ OrdUpdateFail
    \/ OrdLoopBegin
    \/ OrdSkipDebian
    \/ OrdEnter
    \/ OrdStage
    \/ OrdStageFail
    \/ OrdEnd

SpecOrder == InitOrder /\ [][NextOrder]_vars

----------------------------------------------------------------------------
(* Properties of the order of the stages *)

\* entry i of the log is the completed update of a distro
IsUpdate(i) == ordLog[i][1] = "update"

\* the stages logged for subject s, in order
StagesOf(s) ==
    LET Of(e) == e[1] # "update" /\ e[2] = s
        own == SelectSeq(ordLog, Of)
    IN  [i \in 1..Len(own) |-> own[i][1]]

----------------------------------------------------------------------------
(* parse_log and the symbols field: the Patch records over several runs *)

\* The commits of the repository; the first has no parent
ParsedCommits == {"c1", "c2", "c3"}

\* if (len(curr_commit.parents) == 0)
HasNoParents(c) == c = "c1"

\* The runs: the upstream run (distro None) and the run of a distro
ParseIndicators == {"Upstream", "Ubuntu"}

\* file_paths of a run, by which the filenames and the diff of a commit are cut
FilePaths == {1, 2}

\* " ".join(diff_symbols)
SymbolStrings == {<<>>, <<"sym">>}

\* The most Patch records the table is followed to
MaxPatches == 5

\* db.check_commit_present(patch.commit_id, distro): a record of the commit
\* is persisted for the distro of the run
CommitPresent(tbl, c, scope) ==
    \E r \in tbl : r.commitID = c /\ r.scope = scope

\* variant: the patch is inserted whether or not the commit is present
InsertsAlways(present) == TRUE

\* if db.check_commit_present(...): skip, else: insert_patch(...)
InsertsPatch(present) == ~present

\* db.insert_upstream(...) and db.insertInto(...): one more record, made of
\* the commit as this run read it; the symbols field is left NULL
InsertedPatch(tbl, id, c, scope, paths) ==
    tbl \cup {[patchID |-> id, scope |-> scope, commitID |-> c,
               content |-> paths, symbols |-> {}]}

\* What the Patch records leave alone
offPatch == <<revVars, monVars, trackVars, detVars, scoreVars, symVars, credVars, ordVars, remVars>>

\* parse_log(git_path, file_paths, db, match, distro, indicator) up to
\* commits = repo.iter_commits(...)
ParseLogStart ==
    /\ plPc = "idle"
    /\ plPc' = "loop"
    /\ plScope' \in ParseIndicators
    /\ plPaths' \in FilePaths
    /\ plTodo' \in (SUBSET ParsedCommits) \ {{}}
    /\ plAdded' = 0
    /\ plPresent' = 0
    /\ UNCHANGED <<patchTable, nextPatchID, persistErr, offPatch>>

\* the first ever commit: continue
ParseLogRoot ==
    /\ plPc = "loop"
    /\ \E c \in plTodo :
          /\ HasNoParents(c)
          /\ plTodo' = plTodo \ {c}
    /\ UNCHANGED <<patchTable, nextPatchID, plPc, plScope, plPaths, plAdded,
                   plPresent, persistErr, offPatch>>

\* the commit is present: it is counted and left as it is
ParseLogPresent ==
    /\ plPc = "loop"
    /\ \E c \in plTodo :
          /\ ~HasNoParents(c)
          /\ ~InsertsPatch(CommitPresent(patchTable, c, plScope))
          /\ plTodo' = plTodo \ {c}
    /\ plPresent' = plPresent + 1
    /\ UNCHANGED <<patchTable, nextPatchID, plPc, plScope, plPaths, plAdded,
                   persistErr, offPatch>>

\* insert_patch(db, match, distro, patch, indicator): the upstream run
\* inserts the patch; the run of a distro inserts it if the matcher returns
\* a match
ParseLogInsert ==
    /\ plPc = "loop"
    /\ nextPatchID <= MaxPatches
    /\ \E c \in plTodo, dict1 \in BOOLEAN :
          /\ ~HasNoParents(c)
          /\ InsertsPatch(CommitPresent(patchTable, c, plScope))
          /\ plTodo' = plTodo \ {c}
          /\ IF plScope = "Upstream" \/ dict1
             THEN /\ patchTable' = InsertedPatch(patchTable, nextPatchID, c, plScope, plPaths)
                  /\ nextPatchID' = nextPatchID + 1
             ELSE UNCHANGED <<patchTable, nextPatchID>>
    /\ plAdded' = plAdded + 1
    /\ UNCHANGED <<plPc, plScope, plPaths, plPresent, persistErr, offPatch>>

\* print("[Info] Added new commits: ...")
ParseLogEnd ==
    /\ plPc = "loop"
    /\ plTodo = {}
    /\ plPc' = "idle"
    /\ UNCHANGED <<patchTable, nextPatchID, plScope, plPaths, plTodo, plAdded,
                   plPresent, persistErr, offPatch>>

\* patch = session.query(PatchData).filter_by(commitID=commit).one();
\* patch.symbols = " ".join(diff_symbols)
PersistSymbols ==
    /\ plPc = "idle"
    /\ \E c \in ParsedCommits, s \in SymbolStrings :
          LET found == {r \in patchTable : r.scope = "Upstream" /\ r.commitID = c}
          IN  /\ Cardinality(found) = 1
              /\ patchTable' = (patchTable \ found) \cup
                               {[r EXCEPT !.symbols = {s}] : r \in found}
    /\ persistErr' = FALSE
    /\ UNCHANGED <<nextPatchID, plPc, plScope, plPaths, plTodo, plAdded,
                   plPresent, offPatch>>

\* .one() raises: no record, or more than one, has the commit
PersistSymbolsFail ==
    /\ plPc = "idle"
    /\ \E c \in ParsedCommits :
          Cardinality({r \in patchTable : r.scope = "Upstream" /\ r.commitID = c}) # 1
    /\ persistErr' = TRUE
    /\ UNCHANGED <<patchTable, nextPatchID, plPc, plScope, plPaths, plTodo,
                   plAdded, plPresent, offPatch>>

InitPatch ==
    /\ PatchAtRest
    /\ subjects = {}
    /\ nextSubjectID = 1
    /\ RevAtRest
    /\ MonitorAtRest
    /\ TrackAtRest
    /\ DetectAtRest
    /\ ScoreAtRest
    /\ SymAtRest
    /\ RemotesAtRest
    /\ CredAtRest
    /\ OrderAtRest

NextPatch ==
    \/ ParseLogStart
    \/ ParseLogRoot
    \/ ParseLogPresent
    \/ ParseLogInsert
    \/ ParseLogEnd
    \/ PersistSymbols
    \/ PersistSymbolsFail

SpecPatch == InitPatch /\ [][NextPatch]_vars

----------------------------------------------------------------------------
(* Properties of the Patch records *)

\* a step that keeps every record's fields other than symbols, keeps the
\* symbols too while parse_log runs, inserts nothing when a commit is found
\* present or when the symbols are written, and leaves one record per commit
PatchStep ==
    /\ \A r \in patchTable :
          \E r2 \in patchTable' :
              /\ r2.patchID = r.patchID
              /\ r2.scope = r.scope
              /\ r2.commitID = r.commitID
              /\ r2.content = r.content
              /\ (plPc = "loop" => r2.symbols = r.symbols)
    /\ (plPc = "loop" /\ plPresent' # plPresent) => patchTable' = patchTable
    /\ (plPc = "idle" /\ plPc' = "idle") =>
          {r.patchID : r \in patchTable'} = {r.patchID : r \in patchTable}
    /\ \A r1, r2 \in patchTable' :
          (r1.scope = r2.scope /\ r1.commitID = r2.commitID) => r1 = r2

----------------------------------------------------------------------------
(* monitor_downstream: the remotes of the distros *)

\* Distro ids the Distros table may hold; one is the beginning of another
DistroIds ==
    { <<"Ubuntu", "18.04">>, <<"Ubuntu", "18.04", "-azure">>,
      <<"SUSE", "12">>, <<"Debian", "9">> }

\* Remotes the repository may have before the first run
PriorRemotes ==
    { <<"origin">>, <<"Ubuntu", "18.04", "-azure">>, <<"Ubuntu", "18.04">>,
      <<"old", "SUSE", "12">> }

\* The most runs of monitor_downstream followed
MaxRuns == 2

Newline == "\n"

\* repo.git.remote(): the names of the remotes, one to a line, as one string
RECURSIVE RemoteOutput(_)
RemoteOutput(S) ==
    IF S = {} THEN <<>>
    ELSE LET x == CHOOSE y \in S : TRUE
             rest == RemoteOutput(S \ {x})
         IN  IF rest = <<>> THEN x ELSE x \o <<Newline>> \o rest

\* distro_id in current_remotes: the test of a string in a string
IsInfix(id, text) ==
    \E i \in 1..(Len(text) - Len(id) + 1) : SubSeq(text, i, i + Len(id) - 1) = id

\* What the remote setup leaves alone
offRemote == <<revVars, monVars, trackVars, detVars, scoreVars, symVars, credVars, ordVars, patchVars>>

\* current_remotes = repo.git.remote(); the query of the Distros
RemSetupStart ==
    /\ remPc \in {"idle", "done", "aborted"}
    /\ remRuns < MaxRuns
    /\ remRuns' = remRuns + 1
    /\ current_remotes' = RemoteOutput(remotes)
    /\ remTodo' = distroTable
    /\ remPc' = "setup"
    /\ UNCHANGED <<remotes, distroTable, remCreated, offRemote>>

\* repo.create_remote(distro_id, url=url); git refuses a name that exists
RemCreate ==
    /\ remPc = "setup"
    /\ \E d \in remTodo :
          /\ ~IsInfix(d, current_remotes)
          /\ ~IsDebian(d)
          /\ remTodo' = remTodo \ {d}
          /\ remCreated' = Append(remCreated, d)
          /\ IF d \in remotes
             THEN remPc' = "aborted" /\ UNCHANGED remotes
             ELSE remPc' = remPc /\ remotes' = remotes \cup {d}
    /\ UNCHANGED <<distroTable, current_remotes, remRuns, offRemote>>

\* the condition is false: the distro is Debian, or its id occurs in the
\* output of git remote
RemKeep ==
    /\ remPc = "setup"
    /\ \E d \in remTodo :
          /\ IsInfix(d, current_remotes) \/ IsDebian(d)
          /\ remTodo' = remTodo \ {d}
    /\ UNCHANGED <<remotes, distroTable, remPc, current_remotes, remCreated,
                   remRuns, offRemote>>

\* the loop over the Distros is over
RemSetupEnd ==
    /\ remPc = "setup"
    /\ remTodo = {}
    /\ remPc' = "ready"
    /\ UNCHANGED <<remotes, distroTable, current_remotes, remTodo, remCreated,
                   remRuns, offRemote>>

\* remote = repo.remote(subject.distroID) for the subjects of the distros
\* that are not Debian: it raises for a name that is no remote
RemLookup ==
    /\ remPc = "ready"
    /\ remPc' = IF \A d \in distroTable : IsDebian(d) \/ d \in remotes
                THEN "done"
                ELSE "aborted"
    /\ UNCHANGED <<remotes, distroTable, current_remotes, remTodo, remCreated,
                   remRuns, offRemote>>

InitRemote ==
    /\ remotes \in SUBSET PriorRemotes
    /\ distroTable \in (SUBSET DistroIds) \ {{}}
    /\ remPc = "idle"
    /\ current_remotes = <<>>
    /\ remTodo = {}
    /\ remCreated = <<>>
    /\ remRuns = 0
    /\ subjects = {}
    /\ nextSubjectID = 1
    /\ RevAtRest
    /\ MonitorAtRest
    /\ TrackAtRest
    /\ DetectAtRest
    /\ ScoreAtRest
    /\ SymAtRest
    /\ CredAtRest
    /\ OrderAtRest
    /\ PatchAtRest

NextRemote ==
    \/ RemSetupStart
    \/ RemCreate
    \/ RemKeep
    \/ RemSetupEnd
    \/ RemLookup

SpecRemote == InitRemote /\ [][NextRemote]_vars

----------------------------------------------------------------------------
(* Properties of the remotes *)

\* no name is given to create_remote twice
CreatedOnce ==
    \A i, j \in 1..Len(remCreated) : remCreated[i] = remCreated[j] => i = j

(* C26: once the remote setup of a run is over, every distro of the table  *)
(* that is not Debian has a remote named exactly by its id, whatever the    *)
(* ids and the remotes that existed before, and no id has been given to     *)
(* create_remote twice over the runs.                                       *)
C26_EveryDistroHasRemote ==
    /\ (remPc \in {"ready", "done", "aborted"} /\ remTodo = {}) =>
          \A d \in distroTable : ~StartsWith(d, <<"Debian">>) => d \in remotes
    /\ CreatedOnce

====
